---- MODULE Spec2Model ----
\* A model of super-auto-sim: the exhaustive choice enumerator (dice.rs, rng.rs),
\* the team layout operations and death handling (team.rs), the battle engine
\* (battle.rs) and the shop state machine (shop.rs).
EXTENDS Integers, Sequences, FiniteSets, TLC

VARIABLES
    \* ---- the exhaustive dice and the loop that drives it
    impl,         \* "dice" (DeterministicDice, dice.rs) or "rng" (Rng, rng.rs)
    origin,       \* "new" (::new()), "key" (from_key of any key) or "rekey"
                  \* (from_key of the key() of a finished run)
    sim,          \* the simulation that is run against the dice
    initialized,  \* field `initialized`
    index,        \* field `index` (the cursor)
    data,         \* field `data`: the recorded decisions, oldest first
    dpc,          \* position of the driving loop: "next", "run", "done", "abort"
    drawn,        \* the values returned by the draws of the current run
    visited,      \* the draw sequences of the finished runs, in order
    calls,        \* number of calls of next() made so far
    \* ---- one battle (battle.rs)
    battle,       \* Battle(self.0, self.1): battle[1] is the first team
    bpc,          \* position inside Battle::run
    winner,       \* the Winner returned by run, "None" while it runs
    clashes,      \* number of clashes (Battle::step) performed
    fired,        \* the on-battle-start triggers that fired, in order: <<team, slot>>
    rdLog,        \* the teams whose remove_dead passes have returned, in order
    \* ---- one run of the shop (shop.rs)
    shop,         \* struct Shop: team, gold, shop_friends, shop_foods
    spc,          \* "step" while Shop::step is repeated, "done" once it returned true
    last,         \* the transition the last call of step committed
    steps,        \* number of calls of Shop::step made so far
    arm,          \* the arm of Shop::step the last call took (the value r), -1 before
    menu          \* what the run is explored with: the RangeRng ("Rng" of rng.rs or
                  \* "rand", a rand::Rng), the values it returns to Species::sample
                  \* and Food::sample, and the number of steps

diceVars == <<impl, origin, sim, initialized, index, data, dpc, drawn, visited, calls>>

battleVars == <<battle, bpc, winner, clashes, fired, rdLog>>

shopVars == <<shop, spc, last, steps, arm, menu>>

vars == <<diceVars, battleVars, shopVars>>

\* what the dice's driving loop leaves alone, and what a battle leaves alone
notDice == <<battleVars, shopVars>>

notBattle == <<diceVars, shopVars>>

notShop == <<diceVars, battleVars>>

\* ------------------------------------------------------------------ bounds

MaxDepth == 3
MaxWidth == 3
MaxKeyLen == 1
MaxUnits == 3
MaxLiveUnits == 2
MaxShopSteps == 3
MaxDeepSteps == 5

MaxRunSteps == 20
MaxPick == 3
MaxDumbUnits == 4

\* ------------------------------------------------------------------ program constants

TEAM_SIZE == 5
SHOP_ANIMAL_COUNT == 3
SHOP_FOOD_COUNT == 1

\* ------------------------------------------------------------------ helpers

Last(s) == s[Len(s)]

Front(s) == SubSeq(s, 1, Len(s) - 1)

Range(lo, hi) == [start |-> lo, end |-> hi]

\* std::ops::Range::is_empty
RangeIsEmpty(r) == r.start >= r.end

\* std::ops::Range::contains
RangeContains(r, v) == r.start <= v /\ v < r.end

\* ------------------------------------------------------------------ dice.rs / rng.rs
\* An entry of `data` is [v, r]: the chosen value and the range it was drawn from
\* ((usize, Range<usize>) in dice.rs, (lo, hi, v) in rng.rs).

Entry(v, r) == [v |-> v, r |-> r]

NewDice == [initialized |-> FALSE, index |-> 0, data |-> <<>>]

\* the digits of base 36, as char::from_digit writes them; a key is a sequence of
\* such characters
Base36 ==
    <<"0", "1", "2", "3", "4", "5", "6", "7", "8", "9", "a", "b", "c", "d", "e", "f",
      "g", "h", "i", "j", "k", "l", "m", "n", "o", "p", "q", "r", "s", "t", "u", "v",
      "w", "x", "y", "z">>

\* char::from_digit(v, 36).unwrap(), for v < 36
from_digit(v) == Base36[v + 1]

\* char::to_digit(c, 36).unwrap(), for a character key() writes
to_digit(c) == CHOOSE v \in 0..(Len(Base36) - 1) : Base36[v + 1] = c

\* key() panics when a value has no single base-36 digit
KeyOk(d) == \A k \in 1..Len(d.data) : d.data[k].v < Len(Base36)

\* key() writing the history back to front.
key_Reversed(d) ==
    [k \in 1..Len(d.data) |-> from_digit(d.data[Len(d.data) + 1 - k].v)]

\* DeterministicDice::key: one character per entry, its value as a base-36 digit
key(d) == [k \in 1..Len(d.data) |-> from_digit(d.data[k].v)]

\* from_key: one entry per character, holding its base-36 digit and the range 0..0.
from_key(s) ==
    [initialized |-> TRUE, index |-> 0,
     data |-> [k \in 1..Len(s) |-> Entry(to_digit(s[k]), Range(0, 0))]]

\* next()'s loop with `v > r.end` for `v >= r.end`.
RECURSIVE PopCarry_OffByOne(_)
PopCarry_OffByOne(s) ==
    IF s = <<>> THEN <<>>
    ELSE LET e == Last(s)
             v == e.v + 1
         IN IF v > e.r.end THEN PopCarry_OffByOne(Front(s))
            ELSE Append(Front(s), Entry(v, e.r))

\* next()'s loop stopping after the first discarded entry (no carry).
PopCarry_NoCarry(s) ==
    IF s = <<>> THEN <<>>
    ELSE LET e == Last(s)
             v == e.v + 1
         IN IF v >= e.r.end THEN Front(s)
            ELSE Append(Front(s), Entry(v, e.r))

\* The `while let Some(..) = self.data.pop()` loop of next().
RECURSIVE PopCarry(_)
PopCarry(s) ==
    IF s = <<>> THEN <<>>
    ELSE LET e == Last(s)
             v == e.v + 1
         IN IF v >= e.r.end THEN PopCarry(Front(s))
            ELSE Append(Front(s), Entry(v, e.r))

\* next() without the special case of the first call.
DeterministicDice_next_NoFirst(d) ==
    LET nd == PopCarry(d.data)
    IN [d |-> [d EXCEPT !.initialized = TRUE, !.data = nd, !.index = 0],
        ret |-> nd # <<>>]

\* DeterministicDice::next: [d: the dice afterwards, ret: the value returned]
DeterministicDice_next(d) ==
    IF ~d.initialized
    THEN [d |-> [d EXCEPT !.initialized = TRUE], ret |-> TRUE]
    ELSE LET nd == PopCarry(d.data)
         IN [d |-> [d EXCEPT !.data = nd, !.index = 0], ret |-> nd # <<>>]

\* next() that leaves the cursor where the last run ended.
Rng_next_KeepCursor(d) ==
    IF ~d.initialized
    THEN [d |-> [d EXCEPT !.initialized = TRUE], ret |-> TRUE]
    ELSE LET nd == PopCarry(d.data)
         IN [d |-> [d EXCEPT !.data = nd], ret |-> nd # <<>>]

\* Rng::next
Rng_next(d) ==
    IF ~d.initialized
    THEN [d |-> [d EXCEPT !.initialized = TRUE], ret |-> TRUE]
    ELSE LET nd == PopCarry(d.data)
         IN [d |-> [d EXCEPT !.data = nd, !.index = 0], ret |-> nd # <<>>]

\* roll() without `assert!(*r == range)`.
DeterministicDice_roll_NoCheck(d, range) ==
    IF d.index < Len(d.data)
    THEN LET e == d.data[d.index + 1]
         IN IF RangeContains(range, e.v)
            THEN [ok |-> TRUE, out |-> e.v, d |-> [d EXCEPT !.index = d.index + 1]]
            ELSE [ok |-> FALSE, out |-> 0, d |-> d]
    ELSE [ok |-> TRUE, out |-> range.start,
          d |-> [d EXCEPT !.data = Append(d.data, Entry(range.start, range)),
                          !.index = d.index + 1]]

\* <DeterministicDice as Dice>::roll: [ok: no assertion failed, out, d]
DeterministicDice_roll(d, range) ==
    IF d.index < Len(d.data)
    THEN LET e == d.data[d.index + 1]
             r == IF RangeIsEmpty(e.r) THEN range ELSE e.r
             d1 == [d EXCEPT !.data[d.index + 1] = Entry(e.v, r)]
         IN IF r = range /\ RangeContains(range, e.v)
            THEN [ok |-> TRUE, out |-> e.v, d |-> [d1 EXCEPT !.index = d.index + 1]]
            ELSE [ok |-> FALSE, out |-> 0, d |-> d1]
    ELSE [ok |-> TRUE, out |-> range.start,
          d |-> [d EXCEPT !.data = Append(d.data, Entry(range.start, range)),
                          !.index = d.index + 1]]

\* gen_range() seeding a new entry at 0 instead of range.start.
Rng_gen_range_SeedZero(d, range) ==
    IF d.index < Len(d.data)
    THEN LET e == d.data[d.index + 1]
         IN IF e.r = range /\ RangeContains(range, e.v)
            THEN [ok |-> TRUE, out |-> e.v, d |-> [d EXCEPT !.index = d.index + 1]]
            ELSE [ok |-> FALSE, out |-> 0, d |-> d]
    ELSE [ok |-> TRUE, out |-> 0,
          d |-> [d EXCEPT !.data = Append(d.data, Entry(0, range)),
                          !.index = d.index + 1]]

\* <Rng as RangeRng>::gen_range
Rng_gen_range(d, range) ==
    IF d.index < Len(d.data)
    THEN LET e == d.data[d.index + 1]
         IN IF /\ e.r.start = range.start
               /\ e.r.end = range.end
               /\ e.v >= range.start
               /\ e.v < range.end
            THEN [ok |-> TRUE, out |-> e.v, d |-> [d EXCEPT !.index = d.index + 1]]
            ELSE [ok |-> FALSE, out |-> 0, d |-> d]
    ELSE [ok |-> TRUE, out |-> range.start,
          d |-> [d EXCEPT !.data = Append(d.data, Entry(range.start, range)),
                          !.index = d.index + 1]]

\* ------------------------------------------------------------------ the driven simulation
\* A simulation is a decision function: from the values drawn so far in the run
\* (and, for a simulation that is not deterministic, the number of finished runs)
\* to the next range it requests, or to the end of the run.
\*   depth: the run ends after `depth` draws at the latest
\*   w    : width of the first range
\*   lo   : start of the first range
\*   dep  : later ranges depend on the value drawn before, and drawing the
\*          largest value of the first range ends the run early
\*   drift: the first range is one wider in every second run (not deterministic)
\*   zero : the first draw requests an empty range

Sims ==
    [depth : 0..MaxDepth, w : 1..MaxWidth, lo : 0..1,
     dep : BOOLEAN, drift : BOOLEAN, zero : BOOLEAN]

SimDone(s, p) ==
    \/ Len(p) >= s.depth
    \/ s.dep /\ Len(p) = 1 /\ s.w > 1 /\ p[1] = s.lo + s.w - 1

SimRange(s, p, run) ==
    LET k == Len(p)
    IN IF k = 0
       THEN Range(s.lo, s.lo + (IF s.zero THEN 0 ELSE s.w)
                             + (IF s.drift THEN run % 2 ELSE 0))
       ELSE IF s.dep
            THEN Range(k, k + 1 + ((p[k] + k) % (s.w + 1)))
            ELSE Range(s.lo, s.lo + s.w)

Deterministic(s) == ~s.drift

NoEmptyRange(s) == ~s.zero \/ s.depth = 0

\* The leaves of the decision tree of a deterministic simulation.
RECURSIVE LeavesFrom(_, _)
LeavesFrom(s, p) ==
    IF SimDone(s, p) THEN {p}
    ELSE LET r == SimRange(s, p, 0)
         IN UNION {LeavesFrom(s, Append(p, v)) : v \in r.start..(r.end - 1)}

Leaves(s) == LeavesFrom(s, <<>>)

\* p is a root-to-leaf path of the tree: every value lies in the range requested
\* after the values before it, and the run ends after p and not earlier.
IsPath(s, p) ==
    /\ SimDone(s, p)
    /\ \A k \in 1..Len(p) :
          /\ ~SimDone(s, SubSeq(p, 1, k - 1))
          /\ RangeContains(SimRange(s, SubSeq(p, 1, k - 1), 0), p[k])

\* ------------------------------------------------------------------ friend.rs, species.rs
\* Option<T>: None is <<>>, Some(x) is <<x>>.

None == <<>>

Some(x) == <<x>>

IsSome(o) == o # <<>>

IsNone(o) == o = <<>>

Unwrap(o) == o[1]

Purchasable ==
    {"Ant", "Beaver", "Cricket", "Duck", "Fish", "Horse", "Mosquito", "Otter", "Pig"}

Species == Purchasable \cup {"GhostCricket", "Bee"}

\* Species::default_power: (health, attack)
default_power(sp) ==
    CASE sp = "Ant" -> <<2, 1>>
      [] sp = "Beaver" -> <<2, 2>>
      [] sp = "Cricket" -> <<1, 2>>
      [] sp = "Duck" -> <<1, 2>>
      [] sp = "Fish" -> <<2, 3>>
      [] sp = "Horse" -> <<2, 1>>
      [] sp = "Mosquito" -> <<2, 2>>
      [] sp = "Otter" -> <<1, 2>>
      [] sp = "Pig" -> <<3, 1>>

\* Friend::new
Friend_new(sp) ==
    [species |-> sp, attack |-> default_power(sp)[2], health |-> default_power(sp)[1],
     modifier |-> "None", exp |-> 0]

\* Friend::level panics for exp > 6
LevelOk(f) == f.exp <= 6

\* Friend::level
level(f) == IF f.exp <= 2 THEN 1 ELSE IF f.exp <= 5 THEN 1 ELSE 3

\* usize::saturating_sub
saturating_sub(a, b) == IF a >= b THEN a - b ELSE 0

\* ------------------------------------------------------------------ dice.rs: pick_some
\* The draws of a call are given as the sequence ds of the values the dice returns.

Slots == 0..(TEAM_SIZE - 1)

Min(a, b) == IF a <= b THEN a ELSE b

Mask(vs) == [k \in DOMAIN vs |-> IsSome(vs[k])]

CountTrue(mask) == Cardinality({k \in DOMAIN mask : mask[k]})

\* mask.iter().enumerate().filter(|i| *i.1).nth(j).unwrap().0
NthTrue(mask, j) ==
    CHOOSE k \in DOMAIN mask :
        mask[k] /\ Cardinality({m \in DOMAIN mask : m < k /\ mask[m]}) = j

\* the ranges pick_some requests are 0..(count - i), i = 0..n-1: ds answers them
PickDrawsOk(n, vs, ds) ==
    LET count == CountTrue(Mask(vs))
    IN /\ Len(ds) = Min(n, count)
       /\ \A i \in 1..Len(ds) : ds[i] \in 0..(count - (i - 1) - 1)

\* the sequences of values the dice may return to pick_some(dice, n, vs)
PickDraws(n, vs) ==
    LET k == Min(n, CountTrue(Mask(vs)))
    IN {ds \in [1..k -> 0..(CountTrue(Mask(vs)) - 1)] : PickDrawsOk(n, vs, ds)}

\* the closure of pick_some without `mask[k] = false`.
RECURSIVE PickLoop_KeepMask(_, _, _)
PickLoop_KeepMask(mask, ds, acc) ==
    IF ds = <<>> THEN acc
    ELSE PickLoop_KeepMask(mask, Tail(ds), Append(acc, NthTrue(mask, ds[1])))

\* a range that stays one short of the candidates left.
PickRange_Short(count, i) == Range(0, IF count - i > 1 THEN count - i - 1 ELSE 1)

\* `0..(count - i)`, the range of the i-th draw of pick_some
PickRange(count, i) == Range(0, count - i)

RECURSIVE PickLoop(_, _, _)
PickLoop(mask, ds, acc) ==
    IF ds = <<>> THEN acc
    ELSE LET k == NthTrue(mask, ds[1])
         IN PickLoop([mask EXCEPT ![k] = FALSE], Tail(ds), Append(acc, k))

\* pick_some(dice, n, vs): the indices yielded, in order
pick_some(n, vs, ds) == PickLoop(Mask(vs), ds, <<>>)

\* ------------------------------------------------------------------ team.rs
\* A team is [Option<Friend>; TEAM_SIZE], index 0 the front.

Team_new == [i \in Slots |-> None]

count(t) == Cardinality({i \in Slots : IsSome(t[i])})

is_empty(t) == count(t) = 0

\* Friend::has_default_power: the unit has the stats its species starts with
has_default_power(f) == <<f.health, f.attack>> = default_power(f.species)

\* is_dumb that also takes a team of three for dumb.
is_dumb_UpToThree(t) ==
    /\ count(t) <= 3
    /\ \A i \in Slots : IsSome(t[i]) =>
          (Unwrap(t[i]).modifier = "None" /\ has_default_power(Unwrap(t[i])))

\* Team::is_dumb
is_dumb(t) ==
    /\ count(t) < 3
    /\ \A i \in Slots : IsSome(t[i]) =>
          (Unwrap(t[i]).modifier = "None" /\ has_default_power(Unwrap(t[i])))

\* `while i < TEAM_SIZE && self[i].is_some() == occupied { i += 1 }`
RECURSIVE Scan(_, _, _)
Scan(t, i, occupied) ==
    IF i < TEAM_SIZE /\ IsSome(t[i]) = occupied THEN Scan(t, i + 1, occupied) ELSE i

\* compact that moves nothing.
compact_Nothing(t) == t

\* Team::compact, the loop from position i on
RECURSIVE CompactFrom(_, _)
CompactFrom(t, i0) ==
    LET i == Scan(t, i0, TRUE)
        j == Scan(t, i, FALSE)
    IN IF i >= TEAM_SIZE \/ j >= TEAM_SIZE THEN t
       ELSE CompactFrom([t EXCEPT ![i] = t[j], ![j] = None], i)

\* compact that closes the first gap only.
compact_FirstGap(t) ==
    LET i == Scan(t, 0, TRUE)
        j == Scan(t, i, FALSE)
    IN IF i >= TEAM_SIZE \/ j >= TEAM_SIZE THEN t
       ELSE [t EXCEPT ![i] = t[j], ![j] = None]

\* compact that gives up when the front slot is empty.
compact_FrontOnly(t) == IF IsNone(t[0]) THEN t ELSE CompactFrom(t, 0)

\* Team::compact
compact(t) == CompactFrom(t, 0)

\* for k in (i..j).rev() { self[k + 1] = self[k].take() }
RECURSIVE ShiftBack(_, _, _)
ShiftBack(t, i, k) ==
    IF k < i THEN t
    ELSE ShiftBack([t EXCEPT ![k + 1] = t[k], ![k] = None], i, k - 1)

\* for k in j..i { self[k] = self[k + 1].take() }
RECURSIVE ShiftFront(_, _, _)
ShiftFront(t, k, i) ==
    IF k >= i THEN t
    ELSE ShiftFront([t EXCEPT ![k] = t[k + 1], ![k + 1] = None], k + 1, i)

\* make_space_at that looks in front of i before it looks behind.
make_space_at_FrontFirst(t, i) ==
    IF IsNone(t[i]) THEN [ok |-> TRUE, team |-> t]
    ELSE LET behind == {j \in (i + 1)..(TEAM_SIZE - 1) : IsNone(t[j])}
             front == {j \in 0..(i - 1) : IsNone(t[j])}
         IN IF front # {}
            THEN LET j == CHOOSE a \in front : \A b \in front : a <= b
                 IN [ok |-> TRUE, team |-> ShiftFront(t, j, i)]
            ELSE IF behind # {}
                 THEN LET j == CHOOSE a \in behind : \A b \in behind : a <= b
                      IN [ok |-> TRUE, team |-> ShiftBack(t, i, j - 1)]
                 ELSE [ok |-> FALSE, team |-> t]

\* Team::make_space_at: [ok: the value returned, team: the team afterwards]
make_space_at(t, i) ==
    IF IsNone(t[i]) THEN [ok |-> TRUE, team |-> t]
    ELSE LET behind == {j \in (i + 1)..(TEAM_SIZE - 1) : IsNone(t[j])}
             front == {j \in 0..(i - 1) : IsNone(t[j])}
         IN IF behind # {}
            THEN LET j == CHOOSE a \in behind : \A b \in behind : a <= b
                 IN [ok |-> TRUE, team |-> ShiftBack(t, i, j - 1)]
            ELSE IF front # {}
                 THEN LET j == CHOOSE a \in front : \A b \in front : a <= b
                      IN [ok |-> TRUE, team |-> ShiftFront(t, j, i)]
                 ELSE [ok |-> FALSE, team |-> t]

\* on_summon in which a Horse reacts only to a summon in a slot next to it.
on_summon_Adjacent(t, i, pos) ==
    IF Unwrap(t[i]).species = "Horse" /\ (i = pos + 1 \/ pos = i + 1)
    THEN [t EXCEPT ![pos] = Some([Unwrap(t[pos]) EXCEPT !.attack = @ + 1,
                                                        !.health = @ + 1])]
    ELSE t

\* Team::on_summon(i, pos)
on_summon(t, i, pos) ==
    IF Unwrap(t[i]).species = "Horse"
    THEN [t EXCEPT ![pos] = Some([Unwrap(t[pos]) EXCEPT !.attack = @ + 1,
                                                        !.health = @ + 1])]
    ELSE t

\* for j in 0..TEAM_SIZE { if i != j && self[j].is_some() { self.on_summon(j, i) } }
RECURSIVE SummonLoop(_, _, _)
SummonLoop(t, pos, j) ==
    IF j >= TEAM_SIZE THEN t
    ELSE IF j # pos /\ IsSome(t[j]) THEN SummonLoop(on_summon(t, j, pos), pos, j + 1)
         ELSE SummonLoop(t, pos, j + 1)

\* Team::summon
summon(t, friend, team_pos) == SummonLoop([t EXCEPT ![team_pos] = Some(friend)], team_pos, 0)

\* a ghost cricket of 1/1 whatever the cricket's level.
GhostCricket_Stock(f) ==
    [species |-> "GhostCricket", attack |-> 1, health |-> 1,
     modifier |-> "None", exp |-> 0]

\* the unit a dead Cricket f leaves behind
GhostCricket(f) ==
    [species |-> "GhostCricket", attack |-> level(f), health |-> level(f),
     modifier |-> "None", exp |-> 0]

\* a bee that is summoned with no health.
Bee_Dead == [species |-> "Bee", attack |-> 1, health |-> 0, modifier |-> "None", exp |-> 0]

\* the unit a dead unit with honey leaves behind
Bee == [species |-> "Bee", attack |-> 1, health |-> 1, modifier |-> "None", exp |-> 0]

\* the species part of Team::on_death; ds are the draws of random_friend
OnDeathSpecies(t, f, i, ds) ==
    CASE f.species = "Cricket" ->
            SummonLoop([t EXCEPT ![i] = Some(GhostCricket(f))], i, 0)
      [] f.species = "Ant" ->
            IF ds = <<>> THEN t
            ELSE LET j == pick_some(1, t, ds)[1]
                 IN [t EXCEPT ![j] = Some([Unwrap(t[j]) EXCEPT
                                              !.attack = @ + level(f) * 2,
                                              !.health = @ + level(f)])]
      [] OTHER -> t

\* on_death that puts the bee into slot i without making space.
OnDeathModifier_Overwrite(t, f, i) ==
    IF f.modifier = "Honey" THEN SummonLoop([t EXCEPT ![i] = Some(Bee)], i, 0) ELSE t

\* the modifier part of Team::on_death
OnDeathModifier(t, f, i) ==
    IF f.modifier = "Honey"
    THEN LET sp == make_space_at(t, i)
         IN IF sp.ok THEN SummonLoop([sp.team EXCEPT ![i] = Some(Bee)], i, 0)
            ELSE t
    ELSE t

\* Team::on_death(f, i, rng), called with slot i already emptied
on_death(t, f, i, ds) == OnDeathModifier(OnDeathSpecies(t, f, i, ds), f, i)

\* on_death in which a Cricket rolls for a friend as well.
OnDeathDraws_Cricket(t, f) ==
    IF f.species \in {"Ant", "Cricket"} THEN PickDraws(1, t) ELSE {<<>>}

\* the draws on_death makes: one random_friend for an Ant, none otherwise
OnDeathDraws(t, f) == IF f.species = "Ant" THEN PickDraws(1, t) ELSE {<<>>}

\* on_death calls Friend::level for a Cricket and for an Ant that finds a friend
OnDeathPanics(t, f) ==
    /\ ~LevelOk(f)
    /\ \/ f.species = "Cricket"
       \/ f.species = "Ant" /\ ~is_empty(t)

IsDead(o) == IsSome(o) /\ Unwrap(o).health = 0

\* one iteration of the loop of Team::remove_dead, for slot i
RemoveDeadSlot(t, i, ds) ==
    IF IsDead(t[i]) THEN on_death([t EXCEPT ![i] = None], Unwrap(t[i]), i, ds)
    ELSE t

RemoveDeadDraws(t, i) ==
    IF IsDead(t[i]) THEN OnDeathDraws([t EXCEPT ![i] = None], Unwrap(t[i]))
    ELSE {<<>>}

RemoveDeadPanics(t, i) ==
    IsDead(t[i]) /\ OnDeathPanics([t EXCEPT ![i] = None], Unwrap(t[i]))

\* the position of Battle::run
\*   "start": before_battle is about to call on_battle_start(i, t)
\*   "rd"   : remove_dead of team t is about to look at slot i
\*   "loop" : at the head of the loop of run
\*   "done" : run has returned `winner`;  "abort": run has panicked
At(op, t, i, changed) == [op |-> op, t |-> t, i |-> i, changed |-> changed]

Idle == At("idle", 1, 0, FALSE)

Aborted == At("abort", 1, 0, FALSE)

\* the variables of the part that is not running keep these values
DiceIdle ==
    /\ impl = "dice" /\ origin = "new"
    /\ sim = [depth |-> 0, w |-> 1, lo |-> 0, dep |-> FALSE, drift |-> FALSE, zero |-> FALSE]
    /\ initialized = FALSE /\ index = 0 /\ data = <<>>
    /\ dpc = "idle" /\ drawn = <<>> /\ visited = <<>> /\ calls = 0

BattleIdle ==
    /\ battle = <<Team_new, Team_new>>
    /\ bpc = Idle
    /\ winner = "None" /\ clashes = 0 /\ fired = <<>> /\ rdLog = <<>>

ShopSlots == 0..(SHOP_ANIMAL_COUNT - 1)

FoodSlots == 0..(SHOP_FOOD_COUNT - 1)

\* the struct literal of Shop::new, before its reroll
EmptyShop ==
    [team |-> Team_new, gold |-> 10,
     shop_friends |-> [i \in ShopSlots |-> None],
     shop_foods |-> [i \in FoodSlots |-> None]]

ShopIdle ==
    /\ shop = EmptyShop /\ spc = "idle" /\ last = "none" /\ steps = 0 /\ arm = -1
    /\ menu = [rng |-> "Rng", friends |-> {}, foods |-> {}, steps |-> 0]

\* ------------------------------------------------------------------ the dice's actions

Dice == [initialized |-> initialized, index |-> index, data |-> data]

next(d) == IF impl = "dice" THEN DeterministicDice_next(d) ELSE Rng_next(d)

roll(d, range) ==
    IF impl = "dice" THEN DeterministicDice_roll(d, range) ELSE Rng_gen_range(d, range)

Digits == 0..MaxWidth

Keys == UNION {[1..n -> {from_digit(v) : v \in Digits}] : n \in 0..MaxKeyLen}

InitDice ==
    /\ \/ /\ impl \in {"dice", "rng"}
          /\ origin = "new"
          /\ sim \in Sims
          /\ initialized = NewDice.initialized
          /\ index = NewDice.index
          /\ data = NewDice.data
          /\ dpc = "next"
       \/ /\ impl = "dice"
          /\ origin = "key"
          /\ sim \in {s \in Sims : ~s.drift /\ ~s.zero}
          /\ \E s \in Keys :
                /\ initialized = from_key(s).initialized
                /\ index = from_key(s).index
                /\ data = from_key(s).data
          /\ dpc = "run"
    /\ drawn = <<>>
    /\ visited = <<>>
    /\ calls = 0
    /\ BattleIdle /\ ShopIdle

\* `while dice.next()`: one call of next()
Advance ==
    /\ dpc = "next"
    /\ LET res == next(Dice)
       IN /\ initialized' = res.d.initialized
          /\ index' = res.d.index
          /\ data' = res.d.data
          /\ dpc' = IF res.ret THEN "run" ELSE "done"
    /\ calls' = calls + 1
    /\ drawn' = <<>>
    /\ UNCHANGED <<impl, origin, sim, visited, notDice>>

\* one draw of the running simulation
Draw ==
    /\ dpc = "run"
    /\ ~SimDone(sim, drawn)
    /\ LET res == roll(Dice, SimRange(sim, drawn, Len(visited)))
       IN /\ initialized' = res.d.initialized
          /\ index' = res.d.index
          /\ data' = res.d.data
          /\ dpc' = IF res.ok THEN "run" ELSE "abort"
          /\ drawn' = IF res.ok THEN Append(drawn, res.out) ELSE drawn
    /\ UNCHANGED <<impl, origin, sim, visited, calls, notDice>>

\* the simulation returns: the run is over
Finish ==
    /\ dpc = "run"
    /\ SimDone(sim, drawn)
    /\ visited' = Append(visited, drawn)
    /\ dpc' = "next"
    /\ UNCHANGED <<impl, origin, sim, initialized, index, data, drawn, calls, notDice>>

NextDice == Advance \/ Draw \/ Finish

\* `let mut d = DeterministicDice::from_key(&dice.key())` after a run of the
\* enumeration has finished; the simulation is then run once more with d
Reload ==
    /\ dpc = "next"
    /\ impl = "dice" /\ origin = "new"
    /\ visited # <<>>
    /\ IF KeyOk(Dice)
       THEN LET d == from_key(key(Dice))
            IN /\ initialized' = d.initialized
               /\ index' = d.index
               /\ data' = d.data
               /\ dpc' = "run"
       ELSE dpc' = "abort" /\ UNCHANGED <<initialized, index, data>>
    /\ origin' = "rekey"
    /\ drawn' = <<>>
    /\ UNCHANGED <<impl, sim, visited, calls, notDice>>

\* `while dice.next()` of the enumeration; the rebuilt dice runs once
Enumerate == origin # "rekey" /\ Advance

\* the enumeration, or one more run of a finished run from its key
NextReload == Enumerate \/ Draw \/ Finish \/ Reload

\* ------------------------------------------------------------------ battle.rs

\* shots that take 2 health.
RECURSIVE Shoot_Two(_, _)
Shoot_Two(t, js) ==
    IF js = <<>> THEN t
    ELSE Shoot_Two([t EXCEPT ![js[1]] =
                        Some([Unwrap(t[js[1]]) EXCEPT !.health = saturating_sub(@, 2)])],
                   Tail(js))

\* g.health = g.health.saturating_sub(1) for every j of js
RECURSIVE Shoot(_, _)
Shoot(t, js) ==
    IF js = <<>> THEN t
    ELSE Shoot([t EXCEPT ![js[1]] =
                    Some([Unwrap(t[js[1]]) EXCEPT !.health = saturating_sub(@, 1)])],
               Tail(js))

\* on_battle_start returning early for a unit whose health is 0.
on_battle_start_SkipDead(b, i, me, ds) ==
    IF IsNone(b[me][i]) \/ IsDead(b[me][i]) THEN b
    ELSE LET f == Unwrap(b[me][i])
         IN IF f.species = "Mosquito"
            THEN [b EXCEPT ![3 - me] = Shoot(b[3 - me], pick_some(level(f), b[3 - me], ds))]
            ELSE b

\* Battle::on_battle_start(i, team, rng); `me` is the team index of `team`
on_battle_start(b, i, me, ds) ==
    IF IsNone(b[me][i]) THEN b
    ELSE LET f == Unwrap(b[me][i])
         IN IF f.species = "Mosquito"
            THEN [b EXCEPT ![3 - me] = Shoot(b[3 - me], pick_some(level(f), b[3 - me], ds))]
            ELSE b

\* the draws on_battle_start makes: random_friends(level) for a Mosquito
OnBattleStartDraws(b, i, me) ==
    IF IsSome(b[me][i]) /\ Unwrap(b[me][i]).species = "Mosquito"
    THEN PickDraws(level(Unwrap(b[me][i])), b[3 - me])
    ELSE {<<>>}

OnBattleStartPanics(b, i, me) ==
    IsSome(b[me][i]) /\ Unwrap(b[me][i]).species = "Mosquito" /\ ~LevelOk(Unwrap(b[me][i]))

\* step where every blow counts twice.
Clash_Twice(b) ==
    LET f == Unwrap(b[1][0])
        g == Unwrap(b[2][0])
    IN [b EXCEPT ![1][0] = Some([f EXCEPT !.health = saturating_sub(f.health, 2 * g.attack)]),
                 ![2][0] = Some([g EXCEPT !.health = saturating_sub(g.health, 2 * f.attack)])]

\* step where a front unit killed by the first blow no longer strikes back.
Clash_FirstStrike(b) ==
    LET f == Unwrap(b[1][0])
        g == Unwrap(b[2][0])
        f1 == [f EXCEPT !.health = saturating_sub(f.health, g.attack)]
        g1 == [g EXCEPT !.health = IF f1.health = 0 THEN g.health
                                   ELSE saturating_sub(g.health, f1.attack)]
    IN <<[b[1] EXCEPT ![0] = Some(f1)], [b[2] EXCEPT ![0] = Some(g1)]>>

\* step that exchanges no damage.
Clash_NoDamage(b) == b

\* the damage exchange of Battle::step
Clash(b) ==
    LET f == Unwrap(b[1][0])
        g == Unwrap(b[2][0])
        f1 == [f EXCEPT !.health = saturating_sub(f.health, g.attack)]
        g1 == [g EXCEPT !.health = saturating_sub(g.health, f1.attack)]
    IN <<[b[1] EXCEPT ![0] = Some(f1)], [b[2] EXCEPT ![0] = Some(g1)]>>

\* the units battles are fought with
UnitPool ==
    {Friend_new("Ant"), [Friend_new("Ant") EXCEPT !.modifier = "Honey"],
     Friend_new("Cricket"), [Friend_new("Cricket") EXCEPT !.modifier = "Honey"],
     Friend_new("Mosquito"), Friend_new("Horse")}

\* the gap-free team holding the units of q, front first
TeamOf(q) == [i \in Slots |-> IF i < Len(q) THEN Some(q[i + 1]) ELSE None]

Lineups == UNION {[1..k -> UnitPool] : k \in 0..MaxUnits}

InitBattle ==
    /\ DiceIdle /\ ShopIdle
    /\ \E a, b \in Lineups :
          /\ Len(a) + Len(b) <= MaxUnits
          /\ battle = <<TeamOf(a), TeamOf(b)>>
    /\ bpc = At("start", 1, 0, FALSE)
    /\ winner = "None"
    /\ clashes = 0
    /\ fired = <<>>
    /\ rdLog = <<>>

\* the battles whose termination is checked
InitBattleLive ==
    /\ DiceIdle /\ ShopIdle
    /\ \E a, b \in Lineups :
          /\ Len(a) + Len(b) <= MaxLiveUnits
          /\ battle = <<TeamOf(a), TeamOf(b)>>
    /\ bpc = At("start", 1, 0, FALSE)
    /\ winner = "None"
    /\ clashes = 0
    /\ fired = <<>>
    /\ rdLog = <<>>

\* the Mosquito teams: three Mosquitoes of level 1, or one of level 3
Snipers ==
    {[k \in 1..3 |-> Friend_new("Mosquito")],
     <<[Friend_new("Mosquito") EXCEPT !.exp = 6]>>}

\* the battles of up to two units against three Mosquitoes, and of any lineup
\* against one Mosquito of level 3
InitSniped ==
    /\ DiceIdle /\ ShopIdle
    /\ \E a \in Lineups, b \in Snipers :
          /\ Len(a) <= (IF Len(b) = 3 THEN 2 ELSE MaxUnits)
          /\ battle = <<TeamOf(a), TeamOf(b)>>
    /\ bpc = At("start", 1, 0, FALSE)
    /\ winner = "None"
    /\ clashes = 0
    /\ fired = <<>>
    /\ rdLog = <<>>

\* the units remove_dead is tried on: dead and alive, with and without honey
Dead(f) == [f EXCEPT !.health = 0]

Honeyed(f) == [f EXCEPT !.modifier = "Honey"]

CasualtyPool ==
    {Dead(Friend_new("Ant")), Dead(Honeyed(Friend_new("Ant"))),
     Dead(Honeyed(Friend_new("Cricket"))), Dead(Friend_new("Horse")),
     Dead([Friend_new("Cricket") EXCEPT !.exp = 6]),
     Friend_new("Horse"), Friend_new("Fish")}

Casualties == UNION {[1..k -> CasualtyPool] : k \in 0..TEAM_SIZE}

\* Team::remove_dead called on the second team, any gap-free team of the pool
InitRemoveDead ==
    /\ DiceIdle /\ ShopIdle
    /\ \E q \in Casualties : battle = <<Team_new, TeamOf(q)>>
    /\ bpc = At("rd", 2, 0, FALSE)
    /\ winner = "None"
    /\ clashes = 0
    /\ fired = <<>>
    /\ rdLog = <<1>>

\* before_battle: one call of on_battle_start, for t in [true, false], i in 0..TEAM_SIZE
OnBattleStart ==
    /\ bpc.op = "start"
    /\ IF OnBattleStartPanics(battle, bpc.i, bpc.t)
       THEN bpc' = Aborted /\ UNCHANGED <<battle, fired>>
       ELSE /\ \E ds \in OnBattleStartDraws(battle, bpc.i, bpc.t) :
                  battle' = on_battle_start(battle, bpc.i, bpc.t, ds)
            /\ fired' = IF IsSome(battle[bpc.t][bpc.i])
                        THEN Append(fired, <<bpc.t, bpc.i>>) ELSE fired
            /\ bpc' = IF bpc.i < TEAM_SIZE - 1 THEN At("start", bpc.t, bpc.i + 1, FALSE)
                      ELSE IF bpc.t = 1 THEN At("start", 2, 0, FALSE)
                      ELSE At("rd", 1, 0, FALSE)
    /\ UNCHANGED <<winner, clashes, rdLog, notBattle>>

\* Team::remove_dead: one iteration of its loop; the last one also compacts the
\* team if anything was removed, and returns
RemoveDead ==
    /\ bpc.op = "rd"
    /\ LET t == battle[bpc.t]
           i == bpc.i
           changed == bpc.changed \/ IsDead(t[i])
       IN IF RemoveDeadPanics(t, i)
          THEN bpc' = Aborted /\ UNCHANGED <<battle, rdLog>>
          ELSE \E ds \in RemoveDeadDraws(t, i) :
                  LET t1 == RemoveDeadSlot(t, i, ds)
                  IN IF i < TEAM_SIZE - 1
                     THEN /\ battle' = [battle EXCEPT ![bpc.t] = t1]
                          /\ bpc' = At("rd", bpc.t, i + 1, changed)
                          /\ UNCHANGED rdLog
                     ELSE /\ battle' = [battle EXCEPT ![bpc.t] =
                                           IF changed THEN compact(t1) ELSE t1]
                          /\ bpc' = IF bpc.t = 1 THEN At("rd", 2, 0, FALSE)
                                    ELSE At("loop", 1, 0, FALSE)
                          /\ rdLog' = Append(rdLog, bpc.t)
    /\ UNCHANGED <<winner, clashes, fired, notBattle>>

\* run with the arms (false, true) and (true, false) swapped.
RunReturn_Swapped ==
    /\ bpc.op = "loop"
    /\ is_empty(battle[1]) \/ is_empty(battle[2])
    /\ winner' = IF is_empty(battle[1]) /\ is_empty(battle[2]) THEN "Tied"
                 ELSE IF is_empty(battle[2]) THEN "TeamB"
                 ELSE "TeamA"
    /\ bpc' = At("done", 1, 0, FALSE)
    /\ UNCHANGED <<battle, clashes, fired, rdLog, notBattle>>

\* Battle::run: the loop head finds a team empty and returns
RunReturn ==
    /\ bpc.op = "loop"
    /\ is_empty(battle[1]) \/ is_empty(battle[2])
    /\ winner' = IF is_empty(battle[1]) /\ is_empty(battle[2]) THEN "Tied"
                 ELSE IF is_empty(battle[2]) THEN "TeamA"
                 ELSE "TeamB"
    /\ bpc' = At("done", 1, 0, FALSE)
    /\ UNCHANGED <<battle, clashes, fired, rdLog, notBattle>>

\* Battle::run: the loop head finds both teams non-empty and calls step, which
\* exchanges the damage and goes on to remove_dead of the first team
RunStep ==
    /\ bpc.op = "loop"
    /\ ~is_empty(battle[1]) /\ ~is_empty(battle[2])
    /\ IF IsNone(battle[1][0]) \/ IsNone(battle[2][0])
       THEN bpc' = Aborted /\ UNCHANGED <<battle, clashes>>
       ELSE /\ battle' = Clash(battle)
            /\ clashes' = clashes + 1
            /\ bpc' = At("rd", 1, 0, FALSE)
    /\ UNCHANGED <<winner, fired, rdLog, notBattle>>

NextBattle == OnBattleStart \/ RemoveDead \/ RunReturn \/ RunStep

\* ------------------------------------------------------------------ shop.rs
\* The draws of a call are the values the dice returns, chosen from its range.

\* Species::sample, for the value v drawn from 0..9
Species_sample(v) ==
    CASE v = 0 -> "Ant"
      [] v = 1 -> "Beaver"
      [] v = 2 -> "Cricket"
      [] v = 3 -> "Duck"
      [] v = 4 -> "Fish"
      [] v = 5 -> "Horse"
      [] v = 6 -> "Mosquito"
      [] v = 7 -> "Otter"
      [] v = 8 -> "Pig"

\* Food::sample, for the value v drawn from 0..2
Food_sample(v) == IF v = 0 THEN "Apple" ELSE "Honey"

\* the values the dice returns to Species::sample and to Food::sample
SampleDraws == {5, 7}

FoodDraws == {0, 1}

DeepDraws == {1, 3, 8}

\* the implementations of RangeRng: rng.rs's Rng and any rand::Rng
RangeRngs == {"Rng", "rand"}

Max(a, b) == IF a >= b THEN a ELSE b

\* reroll that offers a Bee in the first slot.
reroll_BeeOffer(s, vs, ws) ==
    [s EXCEPT !.shop_friends = [i \in ShopSlots |->
                  IF i = 0 THEN Some(Bee) ELSE Some(Friend_new(Species_sample(vs[i])))],
              !.shop_foods = [i \in FoodSlots |-> Some(Food_sample(ws[i]))]]

\* reroll that only fills the offer slots that are empty.
reroll_FillEmpty(s, vs, ws) ==
    [s EXCEPT !.shop_friends = [i \in ShopSlots |->
                  IF IsSome(s.shop_friends[i]) THEN s.shop_friends[i]
                  ELSE Some(Friend_new(Species_sample(vs[i])))],
              !.shop_foods = [i \in FoodSlots |->
                  IF IsSome(s.shop_foods[i]) THEN s.shop_foods[i]
                  ELSE Some(Food_sample(ws[i]))]]

\* Shop::reroll; vs and ws are the values drawn for the friends and the foods
reroll(s, vs, ws) ==
    [s EXCEPT !.shop_friends = [i \in ShopSlots |-> Some(Friend_new(Species_sample(vs[i])))],
              !.shop_foods = [i \in FoodSlots |-> Some(Food_sample(ws[i]))]]

\* Team::random_compatible_slot(a): the slots that are empty or hold species a
Compatible(t, a) == [i \in Slots |-> IsNone(t[i]) \/ Unwrap(t[i]).species = a]

\* combine_friends adding the incoming unit's stats instead of taking the larger.
combine_friends_Sum(s, team_pos, g) ==
    LET f == Unwrap(s.team[team_pos])
    IN [s EXCEPT !.team[team_pos] =
           Some([f EXCEPT !.health = f.health + g.health,
                          !.attack = f.attack + g.attack,
                          !.exp = f.exp + 1])]

\* combine_friends counting three exp for every unit combined.
combine_friends_Exp3(s, team_pos, g) ==
    LET f == Unwrap(s.team[team_pos])
    IN [s EXCEPT !.team[team_pos] =
           Some([f EXCEPT !.health = Max(f.health, g.health) + 1,
                          !.attack = Max(f.attack, g.attack) + 1,
                          !.exp = f.exp + 3])]

\* Shop::combine_friends
combine_friends(s, team_pos, g) ==
    LET f == Unwrap(s.team[team_pos])
    IN [s EXCEPT !.team[team_pos] =
           Some([f EXCEPT !.health = Max(f.health, g.health) + 1,
                          !.attack = Max(f.attack, g.attack) + 1,
                          !.exp = f.exp + 1])]

RECURSIVE BuffAll(_, _, _, _)
BuffAll(t, is, dh, da) ==
    IF is = <<>> THEN t
    ELSE LET g == Unwrap(t[is[1]])
         IN BuffAll([t EXCEPT ![is[1]] = Some([g EXCEPT !.health = g.health + dh,
                                                        !.attack = g.attack + da])],
                    Tail(is), dh, da)

\* on_buy in which the Otter gives +2 health and +2 attack.
on_buy_Double(s, f, ds) ==
    IF f.species = "Otter"
    THEN [s EXCEPT !.team = BuffAll(s.team, pick_some(1, s.team, ds), 2, 2)]
    ELSE s

\* Shop::on_buy; ds are the draws of random_friends(1)
on_buy(s, f, ds) ==
    IF f.species = "Otter"
    THEN [s EXCEPT !.team = BuffAll(s.team, pick_some(1, s.team, ds), 1, 1)]
    ELSE s

\* buy_friend that leaves the bought offer in the shop.
buy_friend_KeepOffer(s, shop_pos, team_pos, ds) ==
    LET friend == Unwrap(s.shop_friends[shop_pos])
        s1 == [s EXCEPT !.gold = s.gold - 3]
    IN IF IsNone(s1.team[team_pos])
       THEN LET s2 == on_buy(s1, friend, ds)
            IN [s2 EXCEPT !.team = summon(s2.team, friend, team_pos)]
       ELSE LET s2 == combine_friends(s1, team_pos, friend)
                taken == Unwrap(s2.team[team_pos])
                s3 == on_buy([s2 EXCEPT !.team[team_pos] = None], taken, ds)
            IN [s3 EXCEPT !.team[team_pos] = Some(taken)]

\* buy_friend that places the unit before its on-buy ability fires.
buy_friend_PlaceFirst(s, shop_pos, team_pos, ds) ==
    LET friend == Unwrap(s.shop_friends[shop_pos])
        s1 == [s EXCEPT !.gold = s.gold - 3, !.shop_friends[shop_pos] = None]
    IN IF IsNone(s1.team[team_pos])
       THEN on_buy([s1 EXCEPT !.team = summon(s1.team, friend, team_pos)], friend, <<0>>)
       ELSE LET s2 == combine_friends(s1, team_pos, friend)
                taken == Unwrap(s2.team[team_pos])
                s3 == on_buy([s2 EXCEPT !.team[team_pos] = None], taken, ds)
            IN [s3 EXCEPT !.team[team_pos] = Some(taken)]

\* Shop::buy_friend
buy_friend(s, shop_pos, team_pos, ds) ==
    LET friend == Unwrap(s.shop_friends[shop_pos])
        s1 == [s EXCEPT !.gold = s.gold - 3, !.shop_friends[shop_pos] = None]
    IN IF IsNone(s1.team[team_pos])
       THEN LET s2 == on_buy(s1, friend, ds)
            IN [s2 EXCEPT !.team = summon(s2.team, friend, team_pos)]
       ELSE LET s2 == combine_friends(s1, team_pos, friend)
                taken == Unwrap(s2.team[team_pos])
                s3 == on_buy([s2 EXCEPT !.team[team_pos] = None], taken, ds)
            IN [s3 EXCEPT !.team[team_pos] = Some(taken)]

\* the sequences of values the dice may return to buy_friend
BuyFriendDraws(s, shop_pos, team_pos) ==
    IF Unwrap(s.shop_friends[shop_pos]).species = "Otter"
    THEN PickDraws(1, [s.team EXCEPT ![team_pos] = None])
    ELSE {<<>>}

\* on_sell in which the Duck also raises the attack of the shop's offers.
on_sell_DuckAttack(s, a, ds) ==
    CASE a.species = "Beaver" ->
            [s EXCEPT !.team = BuffAll(s.team, pick_some(2, s.team, ds), level(a), 0)]
      [] a.species = "Duck" ->
            [s EXCEPT !.shop_friends = [i \in ShopSlots |->
                IF IsSome(s.shop_friends[i])
                THEN Some([Unwrap(s.shop_friends[i]) EXCEPT !.health = @ + level(a),
                                                            !.attack = @ + level(a)])
                ELSE None]]
      [] a.species = "Pig" -> [s EXCEPT !.gold = s.gold + level(a)]
      [] OTHER -> s

\* Shop::on_sell; ds are the draws of random_friends(2)
on_sell(s, a, ds) ==
    CASE a.species = "Beaver" ->
            [s EXCEPT !.team = BuffAll(s.team, pick_some(2, s.team, ds), level(a), 0)]
      [] a.species = "Duck" ->
            [s EXCEPT !.shop_friends = [i \in ShopSlots |->
                IF IsSome(s.shop_friends[i])
                THEN Some([Unwrap(s.shop_friends[i]) EXCEPT !.health = @ + level(a)])
                ELSE None]]
      [] a.species = "Pig" -> [s EXCEPT !.gold = s.gold + level(a)]
      [] OTHER -> s

\* sell_friend that fires on_sell while the sold unit is still on the team.
sell_friend_OnSellFirst(s, team_pos, ds) ==
    LET a == Unwrap(s.team[team_pos])
        s1 == on_sell([s EXCEPT !.gold = s.gold + level(a)], a, ds)
    IN [s1 EXCEPT !.team[team_pos] = None]

\* sell_friend that pays back the price of the unit.
sell_friend_Refund(s, team_pos, ds) ==
    LET a == Unwrap(s.team[team_pos])
    IN on_sell([s EXCEPT !.team[team_pos] = None, !.gold = s.gold + 3 * level(a)], a, ds)

\* Shop::sell_friend (on_sold does nothing)
sell_friend(s, team_pos, ds) ==
    LET a == Unwrap(s.team[team_pos])
    IN on_sell([s EXCEPT !.team[team_pos] = None, !.gold = s.gold + level(a)], a, ds)

\* the sequences of values the dice may return to sell_friend
SellFriendDraws(s, team_pos) ==
    IF Unwrap(s.team[team_pos]).species = "Beaver"
    THEN PickDraws(2, [s.team EXCEPT ![team_pos] = None])
    ELSE {<<>>}

\* buy_food in which Honey also buffs like an Apple.
buy_food_HoneyBuffs(s, shop_pos, team_pos) ==
    LET friend == Unwrap(s.team[team_pos])
        food == Unwrap(s.shop_foods[shop_pos])
    IN [s EXCEPT !.shop_foods[shop_pos] = None,
                 !.gold = s.gold - 3,
                 !.team[team_pos] =
                    IF food = "Apple"
                    THEN Some([friend EXCEPT !.attack = friend.attack + 1,
                                             !.health = friend.health + 1])
                    ELSE Some([friend EXCEPT !.modifier = "Honey",
                                             !.attack = friend.attack + 1,
                                             !.health = friend.health + 1])]

\* Shop::buy_food
buy_food(s, shop_pos, team_pos) ==
    LET friend == Unwrap(s.team[team_pos])
        food == Unwrap(s.shop_foods[shop_pos])
    IN [s EXCEPT !.shop_foods[shop_pos] = None,
                 !.gold = s.gold - 3,
                 !.team[team_pos] =
                    IF food = "Apple"
                    THEN Some([friend EXCEPT !.attack = friend.attack + 1,
                                             !.health = friend.health + 1])
                    ELSE Some([friend EXCEPT !.modifier = "Honey"])]

\* Shop::step, arm 4: targets[i][j]
Targets(t) ==
    [i \in Slots |-> [j \in Slots |->
        /\ i # j
        /\ IsSome(t[i])
        /\ IsSome(t[j])
        /\ Unwrap(t[i]).species = Unwrap(t[j]).species]]

\* Shop::step, arm 4: has_targets[i]
HasTargets(t) == [i \in Slots |-> \E j \in Slots : Targets(t)[i][j]]

\* a merge that leaves the unit at i on the team.
Merge_KeepSource(s, i, j) == combine_friends(s, j, Unwrap(s.team[i]))

\* Shop::step, arm 4: the unit at i is taken and combined into the unit at j
Merge(s, i, j) == combine_friends([s EXCEPT !.team[i] = None], j, Unwrap(s.team[i]))

\* Shop::new: the struct literal, then reroll
InitShop ==
    /\ DiceIdle /\ BattleIdle
    /\ \E r \in RangeRngs :
          menu = [rng |-> r, friends |-> SampleDraws, foods |-> FoodDraws,
                  steps |-> MaxShopSteps]
    /\ \E vs \in [ShopSlots -> SampleDraws], ws \in [FoodSlots -> FoodDraws] :
          shop = reroll(EmptyShop, vs, ws)
    /\ spc = "step"
    /\ last = "new"
    /\ steps = 0
    /\ arm = -1

\* Shop::new in a run where the dice keeps returning one value to
\* Species::sample and one to Food::sample; the run is followed further
InitShopDeep ==
    /\ DiceIdle /\ BattleIdle
    /\ \E r \in RangeRngs, v \in DeepDraws, w \in FoodDraws :
          /\ menu = [rng |-> r, friends |-> {v}, foods |-> {w}, steps |-> MaxDeepSteps]
          /\ shop = reroll(EmptyShop, [i \in ShopSlots |-> v], [i \in FoodSlots |-> w])
    /\ spc = "step"
    /\ last = "new"
    /\ steps = 0
    /\ arm = -1

\* Shop::new in a run that is followed until step returns true: the dice keeps
\* returning 8 (the Pig, which sells for the most gold) to Species::sample and one
\* value to Food::sample
InitShopLive ==
    /\ DiceIdle /\ BattleIdle
    /\ \E r \in RangeRngs, w \in FoodDraws :
          /\ menu = [rng |-> r, friends |-> {8}, foods |-> {w}, steps |-> MaxRunSteps]
          /\ shop = reroll(EmptyShop, [i \in ShopSlots |-> 8], [i \in FoodSlots |-> w])
    /\ spc = "step"
    /\ last = "new"
    /\ steps = 0
    /\ arm = -1

\* step panics
Panic == shop' = shop /\ spc' = "abort" /\ last' = "panic" /\ steps' = steps + 1 /\ menu' = menu

\* step returns true: the run of the shop ends, nothing is changed
Exit == shop' = shop /\ spc' = "done" /\ last' = "exit" /\ steps' = steps + 1 /\ menu' = menu

\* step returns false after the transition named kind
Commit(s, kind) ==
    shop' = s /\ spc' = "step" /\ last' = kind /\ steps' = steps + 1 /\ menu' = menu

\* Shop::step, arm 0: buy a friend
StepBuyFriend ==
    /\ spc = "step"
    /\ steps < menu.steps
    /\ arm' = 0
    /\ IF shop.gold < 3 \/ CountTrue(Mask(shop.shop_friends)) = 0
       THEN Exit
       ELSE \E d \in 0..(CountTrue(Mask(shop.shop_friends)) - 1) :
               LET i == NthTrue(Mask(shop.shop_friends), d)
                   a == Unwrap(shop.shop_friends[i]).species
                   ok == Compatible(shop.team, a)
               IN IF CountTrue(ok) = 0
                  THEN Exit
                  ELSE \E e \in 0..(CountTrue(ok) - 1) :
                          \E ds \in BuyFriendDraws(shop, i, NthTrue(ok, e)) :
                             Commit(buy_friend(shop, i, NthTrue(ok, e), ds), "buy")
    /\ UNCHANGED notShop

\* Shop::step, arm 1: buy food
StepBuyFood ==
    /\ spc = "step"
    /\ steps < menu.steps
    /\ arm' = 1
    /\ IF shop.gold < 3 \/ CountTrue(Mask(shop.shop_foods)) = 0 \/ is_empty(shop.team)
       THEN Exit
       ELSE \E d \in 0..(CountTrue(Mask(shop.shop_foods)) - 1) :
               \E e \in 0..(count(shop.team) - 1) :
                  Commit(buy_food(shop, NthTrue(Mask(shop.shop_foods), d),
                                  NthTrue(Mask(shop.team), e)), "food")
    /\ UNCHANGED notShop

\* Shop::step, arm 2: sell a friend
StepSell ==
    /\ spc = "step"
    /\ steps < menu.steps
    /\ arm' = 2
    /\ IF is_empty(shop.team)
       THEN Exit
       ELSE \E e \in 0..(count(shop.team) - 1) :
               LET j == NthTrue(Mask(shop.team), e)
               IN IF ~LevelOk(Unwrap(shop.team[j]))
                  THEN Panic
                  ELSE \E ds \in SellFriendDraws(shop, j) :
                          Commit(sell_friend(shop, j, ds), "sell")
    /\ UNCHANGED notShop

\* Shop::step, arm 3: reroll
StepReroll ==
    /\ spc = "step"
    /\ steps < menu.steps
    /\ arm' = 3
    /\ IF shop.gold > 0
       THEN \E vs \in [ShopSlots -> menu.friends], ws \in [FoodSlots -> menu.foods] :
               Commit([reroll(shop, vs, ws) EXCEPT !.gold = shop.gold - 1], "reroll")
       ELSE Exit
    /\ UNCHANGED notShop

\* Shop::step, arm 4: combine two friends of the team; with no candidate
\* gen_range(0..0) is called: rng.rs's Rng answers 0 and nth(0) finds nothing,
\* rand::Rng::gen_range panics on the empty range
StepMerge ==
    /\ spc = "step"
    /\ steps < menu.steps
    /\ arm' = 4
    /\ LET has == HasTargets(shop.team)
       IN IF CountTrue(has) = 0
          THEN (IF menu.rng = "rand" THEN Panic ELSE Exit)
          ELSE \E d \in 0..(CountTrue(has) - 1) :
                  LET i == NthTrue(has, d)
                      to == Targets(shop.team)[i]
                  IN \E e \in 0..(CountTrue(to) - 1) :
                        Commit(Merge(shop, i, NthTrue(to, e)), "merge")
    /\ UNCHANGED notShop

NextShop == StepBuyFriend \/ StepBuyFood \/ StepSell \/ StepReroll \/ StepMerge

\* ------------------------------------------------------------------ specifications

Init == InitDice

Next == NextDice

Spec == Init /\ [][Next]_vars

SpecReload == InitDice /\ [][NextReload]_vars

SpecBattle == InitBattle /\ [][NextBattle]_vars

\* Battle::run is a sequential loop: it always takes its next step
SpecBattleLive == InitBattleLive /\ [][NextBattle]_vars /\ WF_vars(NextBattle)

SpecSniped == InitSniped /\ [][NextBattle]_vars

\* one pass of Team::remove_dead
SpecRemoveDead == InitRemoveDead /\ [][RemoveDead]_vars

\* ------------------------------------------------------------------ pick_some under the dice
\* `while dice.next() { pick_some(dice, n, vs).collect() }` from a new dice:
\* vs is the team battle[1], n is bpc.i, drawn holds the values rolled in the
\* running call and visited those of the finished calls.

Tagged(k) == [Friend_new("Fish") EXCEPT !.health = k + 1]

Layout(m) == [k \in Slots |-> IF k \in m THEN Some(Tagged(k)) ELSE None]

InitPick ==
    /\ impl \in {"dice", "rng"}
    /\ origin = "new"
    /\ sim = [depth |-> 0, w |-> 1, lo |-> 0, dep |-> FALSE, drift |-> FALSE, zero |-> FALSE]
    /\ initialized = NewDice.initialized
    /\ index = NewDice.index
    /\ data = NewDice.data
    /\ dpc = "next"
    /\ drawn = <<>>
    /\ visited = <<>>
    /\ calls = 0
    /\ ShopIdle
    /\ \E m \in SUBSET Slots, n \in 0..MaxPick :
          /\ battle = <<Layout(m), Team_new>>
          /\ bpc = At("pick", 1, n, FALSE)
    /\ winner = "None"
    /\ clashes = 0
    /\ fired = <<>>
    /\ rdLog = <<>>

\* `n = std::cmp::min(n, count)`
PickCount == Min(bpc.i, CountTrue(Mask(battle[1])))

\* the iterator yields its next index: one roll
PickDraw ==
    /\ bpc.op = "pick"
    /\ dpc = "run"
    /\ Len(drawn) < PickCount
    /\ LET res == roll(Dice, PickRange(CountTrue(Mask(battle[1])), Len(drawn)))
       IN /\ initialized' = res.d.initialized
          /\ index' = res.d.index
          /\ data' = res.d.data
          /\ dpc' = IF res.ok THEN "run" ELSE "abort"
          /\ drawn' = IF res.ok THEN Append(drawn, res.out) ELSE drawn
    /\ UNCHANGED <<impl, origin, sim, visited, calls, notDice>>

\* the iterator is exhausted: the call is over
PickFinish ==
    /\ bpc.op = "pick"
    /\ dpc = "run"
    /\ Len(drawn) >= PickCount
    /\ visited' = Append(visited, drawn)
    /\ dpc' = "next"
    /\ UNCHANGED <<impl, origin, sim, initialized, index, data, drawn, calls, notDice>>

NextPick == Advance \/ PickDraw \/ PickFinish

SpecPick == InitPick /\ [][NextPick]_vars

\* ------------------------------------------------------------------ is_dumb
\* One call of is_dumb on a gap-free team of plain, honeyed and combined units.

DumbPool ==
    {Friend_new("Horse"), Friend_new("Fish"),
     [Friend_new("Horse") EXCEPT !.modifier = "Honey"],
     [Friend_new("Horse") EXCEPT !.health = 3, !.attack = 2, !.exp = 1]}

InitDumb ==
    /\ DiceIdle /\ ShopIdle
    /\ \E q \in UNION {[1..k -> DumbPool] : k \in 0..MaxDumbUnits} :
          battle = <<TeamOf(q), Team_new>>
    /\ bpc = At("team", 1, 0, FALSE)
    /\ winner = "None"
    /\ clashes = 0
    /\ fired = <<>>
    /\ rdLog = <<>>

\* team.is_dumb()
IsDumb ==
    /\ bpc.op = "team"
    /\ bpc' = At(IF is_dumb(battle[1]) THEN "dumb" ELSE "keen", 1, 0, FALSE)
    /\ UNCHANGED <<battle, winner, clashes, fired, rdLog>>
    /\ UNCHANGED notBattle

SpecDumb == InitDumb /\ [][IsDumb]_vars

\* ------------------------------------------------------------------ one call on a team
\* A team of any layout, its units told apart by their health, and one call
\* of make_space_at(i) or of compact on it.

InitTeam ==
    /\ DiceIdle /\ ShopIdle
    /\ \E m \in SUBSET Slots, i \in Slots :
          /\ battle = <<Layout(m), Team_new>>
          /\ bpc = At("team", 1, i, FALSE)
    /\ winner = "None"
    /\ clashes = 0
    /\ fired = <<>>
    /\ rdLog = <<>>

\* team.make_space_at(i)
MakeSpaceAt ==
    /\ bpc.op = "team"
    /\ LET r == make_space_at(battle[1], bpc.i)
       IN /\ battle' = <<r.team, battle[2]>>
          /\ bpc' = At(IF r.ok THEN "spaced" ELSE "full", 1, bpc.i, FALSE)
    /\ UNCHANGED <<winner, clashes, fired, rdLog>>
    /\ UNCHANGED notBattle

\* team.compact()
Compact ==
    /\ bpc.op = "team"
    /\ battle' = <<compact(battle[1]), battle[2]>>
    /\ bpc' = At("compacted", 1, bpc.i, FALSE)
    /\ UNCHANGED <<winner, clashes, fired, rdLog>>
    /\ UNCHANGED notBattle

NextTeam == MakeSpaceAt \/ Compact

SpecTeam == InitTeam /\ [][NextTeam]_vars

SpecShop == InitShop /\ [][NextShop]_vars

SpecShopDeep == InitShopDeep /\ [][NextShop]_vars

\* a run of the shop, with mixed offers or followed further
InitShopAll == InitShop \/ InitShopDeep

SpecShopAll == InitShopAll /\ [][NextShop]_vars

\* a run of the shop in which step is called again as long as it returns false
SpecShopLive == InitShopLive /\ [][NextShop]_vars /\ WF_vars(NextShop)

\* a run of the shop or a battle
InitGame == InitShop \/ InitBattle

NextGame == NextShop \/ NextBattle

SpecGame == InitGame /\ [][NextGame]_vars

\* ------------------------------------------------------------------ claims: the dice

Visited == {visited[i] : i \in 1..Len(visited)}

Requested == SimRange(sim, drawn, Len(visited))

Replaying == dpc = "run" /\ ~SimDone(sim, drawn) /\ index < Len(data)

Discovering == dpc = "run" /\ ~SimDone(sim, drawn) /\ index >= Len(data)

\* C1: driven by `while dice.next() { run(dice) }` from a new dice, a
\* deterministic simulation (whose ranges are never empty) is run once for every
\* root-to-leaf path of its decision tree: no run aborts, no path is run twice,
\* every run is a path of the tree, and when next() returns false every path of
\* the tree has been run.
C1_EveryPathOnce ==
    (origin = "new" /\ Deterministic(sim) /\ NoEmptyRange(sim)) =>
        /\ dpc # "abort"
        /\ Cardinality(Visited) = Len(visited)
        /\ \A i \in 1..Len(visited) : IsPath(sim, visited[i])
        /\ dpc = "done" => Visited = Leaves(sim)

C1_Witness ==
    /\ origin = "new" /\ Deterministic(sim) /\ NoEmptyRange(sim)
    /\ dpc = "done"
    /\ Len(visited) >= 5
    /\ \E i, j \in 1..Len(visited) : Len(visited[i]) < Len(visited[j])

\* C2: after the first call, next() drops every trailing entry whose value plus
\* one is outside its range, increments the last entry that stays inside its
\* range, keeps everything before it, resets the cursor to 0 and returns true;
\* when no entry survives the history is empty and it returns false.
C2_AdvanceCarries ==
    [][(dpc = "next" /\ initialized) =>
        LET S == {k \in 1..Len(data) : RangeContains(data[k].r, data[k].v + 1)}
        IN IF S = {}
           THEN data' = <<>> /\ dpc' = "done"
           ELSE LET k == CHOOSE m \in S : \A n \in S : n <= m
                IN /\ data' = [i \in 1..k |->
                                 IF i = k THEN Entry(data[k].v + 1, data[k].r)
                                 ELSE data[i]]
                   /\ index' = 0
                   /\ dpc' = "run"]_vars

C2_Witness ==
    /\ origin = "new"
    /\ dpc = "run" /\ index = 0 /\ drawn = <<>>
    /\ visited # <<>>
    /\ data # <<>>
    /\ Len(data) + 2 <= Len(Last(visited))
    /\ Last(data).v >= Last(data).r.start + 2

\* C3 as stated: a replayed draw returns the recorded value only when the
\* requested range is the recorded one, and a draw whose range differs from the
\* recorded one aborts; an aborted run stays aborted.
C3_Original ==
    /\ [][Replaying =>
            /\ dpc' = "run" =>
                  /\ data[index + 1].r = Requested
                  /\ drawn' = Append(drawn, data[index + 1].v)
            /\ data[index + 1].r # Requested => dpc' = "abort"]_vars
    /\ [][dpc = "abort" => dpc' = "abort"]_vars

\* C3 (amended): a replayed draw returns the recorded value; a draw whose range
\* differs from the recorded one aborts, except that DeterministicDice lets an
\* entry whose recorded range is empty adopt the requested range; a recorded
\* value outside the requested range aborts as well; an aborted run stays aborted.
C3_ReplayChecksRange ==
    /\ [][Replaying =>
            LET e == data[index + 1]
                adopts == impl = "dice" /\ RangeIsEmpty(e.r)
            IN /\ dpc' \in {"run", "abort"}
               /\ dpc' = "run" <=>
                     /\ e.r = Requested \/ adopts
                     /\ RangeContains(Requested, e.v)
               /\ dpc' = "run" =>
                     /\ drawn' = Append(drawn, e.v)
                     /\ data' = [data EXCEPT ![index + 1] = Entry(e.v, Requested)]
               /\ dpc' = "abort" => drawn' = drawn]_vars
    /\ [][dpc = "abort" => dpc' = "abort"]_vars

C3_Witness ==
    /\ dpc = "abort"
    /\ index < Len(data)
    /\ ~RangeIsEmpty(data[index + 1].r)
    /\ data[index + 1].r # Requested
    /\ RangeContains(Requested, data[index + 1].v)

\* C4: a draw past the end of the history appends one entry holding the
\* requested range with the range's start as value and returns that start;
\* every draw that returns advances the cursor by exactly one.
C4_NewDecision ==
    /\ [][Discovering =>
            /\ data' = Append(data, Entry(Requested.start, Requested))
            /\ drawn' = Append(drawn, Requested.start)
            /\ dpc' = "run"]_vars
    /\ [][Len(drawn') = Len(drawn) + 1 => index' = index + 1]_vars

C4_Witness ==
    /\ origin = "new" /\ visited = <<>>
    /\ dpc = "run"
    /\ Len(data) = 2 /\ index = 2
    /\ Last(data).r.start > 0
    /\ Last(data).v = Last(data).r.start
    /\ Last(drawn) = Last(data).r.start

\* C5: the first next() of a new dice returns true and leaves the history
\* empty; when the first run draws nothing the second next() returns false.
C5_FirstAdvance ==
    /\ [][(origin = "new" /\ calls = 0 /\ dpc = "next") =>
            (dpc' = "run" /\ data' = <<>> /\ index' = 0 /\ drawn' = <<>>)]_vars
    /\ []((origin = "new" /\ sim.depth = 0 /\ calls >= 2) =>
            (dpc = "done" /\ calls = 2 /\ visited = << <<>> >>))

C5_Witness ==
    /\ origin = "new"
    /\ calls = 2
    /\ dpc = "done"
    /\ visited = << <<>> >>

\* ------------------------------------------------------------------ claims: the battle

Occupied(t) == {i \in Slots : IsSome(t[i])}

RECURSIVE SumHealth(_, _)
SumHealth(t, i) ==
    IF i >= TEAM_SIZE THEN 0
    ELSE (IF IsSome(t[i]) THEN Unwrap(t[i]).health ELSE 0) + SumHealth(t, i + 1)

TotalHealth(b) == SumHealth(b[1], 0) + SumHealth(b[2], 0)

Damaged(f, by) == [f EXCEPT !.health = IF f.health > by THEN f.health - by ELSE 0]

C8_WinnerByEmptiness ==
    /\ [][bpc.op = "loop" =>
            LET ea == Occupied(battle[1]) = {}
                eb == Occupied(battle[2]) = {}
            IN /\ (ea /\ eb) => (bpc'.op = "done" /\ winner' = "Tied")
               /\ (~ea /\ eb) => (bpc'.op = "done" /\ winner' = "TeamA")
               /\ (ea /\ ~eb) => (bpc'.op = "done" /\ winner' = "TeamB")
               /\ (ea \/ eb) => (clashes' = clashes /\ battle' = battle)
               /\ (~ea /\ ~eb) => (clashes' = clashes + 1 /\ bpc'.op = "rd"
                                   /\ winner' = "None")]_vars
    /\ [][(clashes' # clashes \/ winner' # winner \/ (bpc'.op = "done" /\ bpc.op # "done"))
            => bpc.op = "loop"]_vars
    /\ [][bpc.op = "start" /\ bpc'.op # "start" => bpc'.op = "rd"]_vars
    /\ [][bpc.op = "rd" /\ bpc'.op # "rd" => bpc'.op = "loop"]_vars

C8_Witness ==
    /\ bpc.op = "done"
    /\ winner = "TeamB"
    /\ clashes = 0
    /\ fired # <<>>
    /\ \E n \in 1..Len(fired) : fired[n][1] = 1

\* C9: a clash changes only the two front units: each loses the other's attack
\* as it was before the clash, health floored at 0, so a unit that dies in the
\* clash still deals its full attack; remove_dead then runs on the first team
\* and then on the second, before the next check.
C9_SimultaneousClash ==
    /\ [][clashes' = clashes + 1 =>
            LET f == Unwrap(battle[1][0])
                g == Unwrap(battle[2][0])
            IN /\ battle'[1] = [battle[1] EXCEPT ![0] = Some(Damaged(f, g.attack))]
               /\ battle'[2] = [battle[2] EXCEPT ![0] = Some(Damaged(g, f.attack))]
               /\ bpc' = At("rd", 1, 0, FALSE)
               /\ rdLog' = rdLog]_vars
    /\ [][rdLog' # rdLog =>
            /\ rdLog' = Append(rdLog, IF Len(rdLog) % 2 = 0 THEN 1 ELSE 2)
            /\ bpc.op = "rd" /\ bpc.t = Last(rdLog')]_vars
    /\ [](bpc.op = "loop" => Len(rdLog) = 2 * (clashes + 1))

C9_Witness ==
    /\ bpc = At("rd", 1, 0, FALSE)
    /\ clashes >= 1
    /\ IsDead(battle[1][0])
    /\ IsDead(battle[2][0])
    /\ Len(rdLog) = 2 * clashes

\* the on-battle-start triggers of the occupied slots of b, first team first,
\* each team front to back
RECURSIVE TriggerOrder(_, _, _)
TriggerOrder(b, k, i) ==
    IF i >= TEAM_SIZE THEN (IF k = 1 THEN TriggerOrder(b, 2, 0) ELSE <<>>)
    ELSE (IF IsSome(b[k][i]) THEN << <<k, i>> >> ELSE <<>>) \o TriggerOrder(b, k, i + 1)

\* C10: before the battle the triggers fire for the first team's slots 0..4 in
\* order, then for the second team's, each against the opposing team (a
\* Mosquito, also one already at health 0, takes 1 health from min(level,
\* count) distinct occupied enemy slots); no unit is removed until all have
\* fired; then remove_dead runs exactly once on each team, first team first.
C10_PreBattleOrder ==
    /\ [][bpc.op = "start" =>
            LET me == bpc.t
                o == 3 - bpc.t
                i == bpc.i
                shooter == IsSome(battle[me][i])
                              /\ Unwrap(battle[me][i]).species = "Mosquito"
            IN /\ battle'[me] = battle[me]
               /\ IF shooter
                  THEN \E J \in SUBSET Occupied(battle[o]) :
                          /\ Cardinality(J) =
                                Min(level(Unwrap(battle[me][i])), count(battle[o]))
                          /\ battle'[o] = [k \in Slots |->
                                IF k \in J THEN Some(Damaged(Unwrap(battle[o][k]), 1))
                                ELSE battle[o][k]]
                  ELSE battle'[o] = battle[o]
               /\ fired' = IF IsSome(battle[me][i]) THEN Append(fired, <<me, i>>)
                           ELSE fired
               /\ rdLog' = <<>> /\ rdLog = <<>>
               /\ bpc'.op = "rd" =>
                     (fired' = TriggerOrder(battle', 1, 0) /\ bpc' = At("rd", 1, 0, FALSE))]_vars
    /\ [][bpc.op # "start" => fired' = fired]_vars
    /\ []((bpc.op = "loop" /\ clashes = 0) => rdLog = <<1, 2>>)

C10_Witness ==
    /\ bpc = At("start", 2, 1, FALSE)
    /\ IsDead(battle[2][0])
    /\ Unwrap(battle[2][0]).species = "Mosquito"
    /\ Last(fired) = <<2, 0>>
    /\ \E i \in Slots : IsSome(battle[1][i]) /\ Unwrap(battle[1][i]).health = 1
                        /\ Unwrap(battle[1][i]).species = "Mosquito"

\* ------------------------------------------------------------------ claims: team layout

\* no empty slot in front of an occupied slot
GapFree(t) == \A i \in Slots : IsSome(t[i]) => \A j \in 0..(i - 1) : IsSome(t[j])

Committed == {"buy", "food", "sell", "reroll", "merge"}

Cnt(t, u) == Cardinality({k \in Slots : t[k] = Some(u)})

UnitsOf(t) == {Unwrap(t[k]) : k \in Occupied(t)}

\* t1 holds the units of t0, each as often, and the units of the set new once more
Kept(t0, t1, new) ==
    \A u \in UnitsOf(t0) \cup UnitsOf(t1) \cup new :
        Cnt(t1, u) = Cnt(t0, u) + (IF u \in new THEN 1 ELSE 0)

HorseCount(t) ==
    Cardinality({k \in Slots : IsSome(t[k]) /\ Unwrap(t[k]).species = "Horse"})

\* C11: when the dead unit removed from slot i carried honey, the bee is placed
\* in slot i if the team has room after the unit's own on-death effect: it is a
\* 1/1 Bee without modifier and exp, raised by +1/+1 by every Horse of the team,
\* and every other unit is kept; without room the bee is dropped and the team is
\* left as it was. Nothing is compacted before slot 4 has been processed; the
\* pass ends gap-free if it removed a unit and changes nothing otherwise.
C11_HoneyBee ==
    [][(bpc.op = "rd" /\ bpc'.op # "abort") =>
         LET t == battle[bpc.t]
             i == bpc.i
             t1 == battle'[bpc.t]
             f == Unwrap(t[i])
         IN /\ (IsDead(t[i]) /\ f.modifier = "Honey") =>
                  \E ds \in RemoveDeadDraws(t, i) :
                     LET mid == OnDeathSpecies([t EXCEPT ![i] = None], f, i, ds)
                         bee == [species |-> "Bee", attack |-> 1 + HorseCount(mid),
                                 health |-> 1 + HorseCount(mid),
                                 modifier |-> "None", exp |-> 0]
                     IN IF count(mid) < TEAM_SIZE
                        THEN /\ Kept(mid, t1, {bee})
                             /\ i < TEAM_SIZE - 1 => t1[i] = Some(bee)
                        ELSE t1 = mid
            /\ (IsDead(t[i]) /\ f.modifier # "Honey" /\ i < TEAM_SIZE - 1) =>
                  \E ds \in RemoveDeadDraws(t, i) :
                     t1 = OnDeathSpecies([t EXCEPT ![i] = None], f, i, ds)
            /\ ~IsDead(t[i]) /\ i < TEAM_SIZE - 1 => t1 = t
            /\ i = TEAM_SIZE - 1 =>
                  IF bpc.changed \/ IsDead(t[i]) THEN GapFree(t1) ELSE t1 = t]_vars

C11_Witness ==
    /\ bpc = At("rd", 2, 1, TRUE)
    /\ count(battle[2]) = TEAM_SIZE
    /\ Unwrap(battle[2][0]).species = "GhostCricket"
    /\ Unwrap(battle[2][0]).health = 3
    /\ \A k \in Slots : Unwrap(battle[2][k]).species # "Bee"

\* C12 as stated: when remove_dead processes a dead Ant in slot i, no unit that
\* is dead and not yet removed (a later slot with health 0) is changed: the
\* Ant's buff goes to a unit with health > 0 only.
C12_Original ==
    [][(bpc.op = "rd" /\ bpc'.op # "abort" /\ IsDead(battle[bpc.t][bpc.i])
          /\ Unwrap(battle[bpc.t][bpc.i]).species = "Ant") =>
         \A j \in (bpc.i + 1)..(TEAM_SIZE - 1) :
            IsDead(battle[bpc.t][j]) => battle'[bpc.t][j] = battle[bpc.t][j]]_vars

\* ------------------------------------------------------------------ claims: the shop

\* a call of Shop::step that took arm r
Took(r) == steps' = steps + 1 /\ arm' = r

Offers(s) == {i \in ShopSlots : IsSome(s.shop_friends[i])}

OfferedSpecies(s, i) == Unwrap(s.shop_friends[i]).species

\* the slots of t that are empty or hold the species a
Fits(t, a) == {j \in Slots : IsNone(t[j]) \/ Unwrap(t[j]).species = a}

FailedClosed == spc' = "done" /\ shop' = shop

Foods(s) == {i \in FoodSlots : IsSome(s.shop_foods[i])}

\* some two occupied slots of t hold the same species
HasPair(t) ==
    \E i, j \in Occupied(t) : i # j /\ Unwrap(t[i]).species = Unwrap(t[j]).species

\* the precondition of arm r fails in shop s
PreconditionFails(s, r) ==
    CASE r = 0 -> \/ s.gold < 3
                  \/ Offers(s) = {}
                  \/ \A i \in Offers(s) : Fits(s.team, OfferedSpecies(s, i)) = {}
      [] r = 1 -> s.gold < 3 \/ Foods(s) = {} \/ Occupied(s.team) = {}
      [] r = 2 -> Occupied(s.team) = {}
      [] r = 3 -> s.gold = 0
      [] r = 4 -> ~HasPair(s.team)
      [] OTHER -> FALSE

\* C14: a step whose precondition fails returns true (the run is done), takes
\* no other action and leaves team, gold and offers as they were.
C14_Original ==
    [][\A r \in 0..4 : (Took(r) /\ PreconditionFails(shop, r)) => FailedClosed]_vars

\* f with dh more health and da more attack
Raised(f, dh, da) == [f EXCEPT !.health = f.health + dh, !.attack = f.attack + da]

\* the occupied slots of t that hold the species a
Holding(t, a) == {k \in Occupied(t) : Unwrap(t[k]).species = a}

\* C15: a unit bought into an empty slot fires its on-buy ability before it is
\* on the team (an Otter raises one unit that was there before, never itself,
\* and nobody on an empty team), then it is placed, then every other occupied
\* slot reacts to the summon (each Horse raises the new unit by +1/+1); the
\* new slot does not react to itself.
C15_BuyIntoEmptySlot ==
    [][(Took(0) /\ last' = "buy" /\ Occupied(shop'.team) # Occupied(shop.team)) =>
         \E i \in Offers(shop) :
            \E j \in Slots \ Occupied(shop.team) :
               LET f == Unwrap(shop.shop_friends[i])
                   t == shop.team
                   t1 == shop'.team
                   horses == Cardinality(Holding(t, "Horse"))
               IN /\ shop'.shop_friends[i] = None
                  /\ Occupied(t1) = Occupied(t) \cup {j}
                  /\ t1[j] = Some(Raised(f, horses, horses))
                  /\ IF f.species = "Otter" /\ Occupied(t) # {}
                     THEN \E k \in Occupied(t) :
                             /\ t1[k] = Some(Raised(Unwrap(t[k]), 1, 1))
                             /\ \A m \in Occupied(t) \ {k} : t1[m] = t[m]
                     ELSE \A m \in Occupied(t) : t1[m] = t[m]]_vars

C15_Witness ==
    /\ last = "buy"
    /\ count(shop.team) = 2
    /\ \E j, k \in Slots :
          /\ j < k
          /\ shop.team[j] = Some(Raised(Friend_new("Otter"), 1, 1))
          /\ shop.team[k] = Some(Raised(Friend_new("Horse"), 1, 1))

\* the larger of a and b
Larger(a, b) == IF a >= b THEN a ELSE b

\* f after the unit g of its species was combined into it
Combined(f, g) ==
    [species |-> f.species,
     modifier |-> f.modifier,
     health |-> Larger(f.health, g.health) + 1,
     attack |-> Larger(f.attack, g.attack) + 1,
     exp |-> f.exp + 1]

\* C16: combining g into the same-species unit f gives f the larger health
\* plus 1, the larger attack plus 1 and one more exp, and keeps f's species and
\* modifier, on a buy onto an occupied slot and on a merge alike; on the buy
\* the on-buy ability fires after the combine with the combined unit off the
\* team (an Otter raises one other unit, never the combined one), and the
\* combined unit is back in its slot afterwards.
C16_Combine ==
    [][/\ (Took(0) /\ last' = "buy" /\ Occupied(shop'.team) = Occupied(shop.team)) =>
            \E i \in Offers(shop) :
               LET g == Unwrap(shop.shop_friends[i])
                   t == shop.team
                   t1 == shop'.team
               IN \E j \in Holding(t, g.species) :
                     LET others == Occupied(t) \ {j}
                     IN /\ shop'.shop_friends[i] = None
                        /\ t1[j] = Some(Combined(Unwrap(t[j]), g))
                        /\ IF g.species = "Otter" /\ others # {}
                           THEN \E k \in others :
                                   /\ t1[k] = Some(Raised(Unwrap(t[k]), 1, 1))
                                   /\ \A m \in others \ {k} : t1[m] = t[m]
                           ELSE \A m \in others : t1[m] = t[m]
       /\ (Took(4) /\ last' = "merge") =>
            LET t == shop.team
                t1 == shop'.team
            IN \E i, j \in Occupied(t) :
                  /\ i # j
                  /\ Unwrap(t[i]).species = Unwrap(t[j]).species
                  /\ t1 = [t EXCEPT ![i] = None,
                                    ![j] = Some(Combined(Unwrap(t[j]), Unwrap(t[i])))]]_vars

C16_Witness ==
    /\ last = "buy"
    /\ count(shop.team) = 1
    /\ \E j \in Slots :
          shop.team[j] = Some([species |-> "Horse", modifier |-> "None",
                               health |-> 3, attack |-> 2, exp |-> 1])

\* f after it was fed food
Fed(f, food) ==
    IF food = "Apple" THEN Raised(f, 1, 1)
    ELSE [species |-> f.species, modifier |-> "Honey", health |-> f.health,
          attack |-> f.attack, exp |-> f.exp]

\* C17: a buy-food step buys exactly when gold >= 3, a food is offered and the
\* team is not empty (otherwise it ends the run with nothing changed); it
\* empties that food slot, takes exactly 3 gold, leaves the unit offers and
\* feeds exactly one occupied slot: an Apple gives +1 attack and +1 health,
\* Honey sets the modifier to Honey and leaves the stats.
C17_BuyFood ==
    [][Took(1) =>
         IF shop.gold >= 3 /\ Foods(shop) # {} /\ Occupied(shop.team) # {}
         THEN /\ spc' = "step" /\ last' = "food"
              /\ shop'.gold = shop.gold - 3
              /\ shop'.shop_friends = shop.shop_friends
              /\ \E i \in Foods(shop) :
                    /\ shop'.shop_foods = [shop.shop_foods EXCEPT ![i] = None]
                    /\ \E j \in Occupied(shop.team) :
                          shop'.team = [shop.team EXCEPT ![j] =
                              Some(Fed(Unwrap(shop.team[j]), Unwrap(shop.shop_foods[i])))]
         ELSE FailedClosed]_vars

C17_Witness ==
    /\ last = "food"
    /\ shop.gold = 4
    /\ Foods(shop) = {}
    /\ count(shop.team) = 1
    /\ \E j \in Slots : shop.team[j] = Some(Fed(Friend_new("Horse"), "Honey"))

\* the slots of rest whose unit has d more health in t1 than in t
RaisedHealth(t, t1, rest, d) ==
    {m \in rest : t1[m] = Some(Raised(Unwrap(t[m]), d, 0))}

\* the smaller of a and b
Smaller(a, b) == IF a <= b THEN a ELSE b

\* C18: a sell step on a non-empty team takes exactly one unit off the team
\* and credits its level in gold (a Pig's on-sell adds its level once more);
\* the on-sell ability acts on the team without the sold unit (a Beaver
\* raises min(2, remaining) of the remaining units, so the sold unit takes
\* none of the two picks) and the remaining units' own reactions change
\* nothing; on an empty team the step ends the run.
C18_Sell ==
    [][Took(2) =>
         IF Occupied(shop.team) = {}
         THEN FailedClosed
         ELSE /\ spc' = "step" /\ last' = "sell"
              /\ shop'.shop_foods = shop.shop_foods
              /\ \E j \in Occupied(shop.team) :
                    LET a == Unwrap(shop.team[j])
                        t == shop.team
                        t1 == shop'.team
                        rest == Occupied(t) \ {j}
                    IN /\ Occupied(t1) = rest
                       /\ shop'.gold = shop.gold + level(a)
                                       + (IF a.species = "Pig" THEN level(a) ELSE 0)
                       /\ IF a.species = "Beaver"
                          THEN /\ Cardinality(RaisedHealth(t, t1, rest, level(a)))
                                     = Smaller(2, Cardinality(rest))
                               /\ \A m \in rest \ RaisedHealth(t, t1, rest, level(a)) :
                                     t1[m] = t[m]
                          ELSE \A m \in rest : t1[m] = t[m]]_vars

C18_Witness ==
    /\ last = "sell"
    /\ shop.gold = 5
    /\ count(shop.team) = 1
    /\ \E j \in Slots : shop.team[j] = Some(Raised(Friend_new("Beaver"), 1, 0))

\* the offers of s, each present one with d more health
OffersRaised(s, d) ==
    [i \in ShopSlots |->
        IF IsSome(s.shop_friends[i])
        THEN Some(Raised(Unwrap(s.shop_friends[i]), d, 0))
        ELSE None]

\* C19: the on-sell abilities. A sold Beaver adds its level to the health of
\* min(2, remaining) distinct remaining units, a sold Duck adds its level to
\* the health of every unit on offer, a sold Pig adds its level to gold on top
\* of the price, every other species changes nothing; the sold unit is gone
\* and no attack value of the team or of the offers changes.
C19_OnSell ==
    [][(Took(2) /\ last' = "sell") =>
         \E j \in Occupied(shop.team) :
            LET a == Unwrap(shop.team[j])
                t == shop.team
                t1 == shop'.team
                rest == Occupied(t) \ {j}
                hit == RaisedHealth(t, t1, rest, level(a))
            IN /\ t1[j] = None
               /\ \A m \in rest : IsSome(t1[m]) /\ Unwrap(t1[m]).attack = Unwrap(t[m]).attack
               /\ \A i \in ShopSlots :
                     /\ IsSome(shop'.shop_friends[i]) <=> IsSome(shop.shop_friends[i])
                     /\ IsSome(shop.shop_friends[i]) =>
                           Unwrap(shop'.shop_friends[i]).attack = Unwrap(shop.shop_friends[i]).attack
               /\ CASE a.species = "Beaver" ->
                          /\ Cardinality(hit) = Smaller(2, Cardinality(rest))
                          /\ \A m \in rest \ hit : t1[m] = t[m]
                          /\ shop'.shop_friends = shop.shop_friends
                          /\ shop'.gold = shop.gold + level(a)
                    [] a.species = "Duck" ->
                          /\ shop'.shop_friends = OffersRaised(shop, level(a))
                          /\ \A m \in rest : t1[m] = t[m]
                          /\ shop'.gold = shop.gold + level(a)
                    [] a.species = "Pig" ->
                          /\ shop'.gold = shop.gold + level(a) + level(a)
                          /\ \A m \in rest : t1[m] = t[m]
                          /\ shop'.shop_friends = shop.shop_friends
                    [] OTHER ->
                          /\ \A m \in rest : t1[m] = t[m]
                          /\ shop'.shop_friends = shop.shop_friends
                          /\ shop'.gold = shop.gold + level(a)]_vars

C19_Witness ==
    /\ last = "sell"
    /\ shop.gold = 8
    /\ is_empty(shop.team)
    /\ Cardinality(Offers(shop)) = 2
    /\ \A i \in Offers(shop) : shop.shop_friends[i] = Some(Raised(Friend_new("Duck"), 1, 0))

\* the species of the catalog
Catalog == {"Ant", "Beaver", "Cricket", "Duck", "Fish", "Horse", "Mosquito", "Otter", "Pig"}

\* a unit as the shop offers it: exp 0, no modifier, the species' own stats
Fresh(f) ==
    /\ f.species \in Catalog
    /\ f.exp = 0
    /\ f.modifier = "None"
    /\ <<f.health, f.attack>> = default_power(f.species)

\* C20: a reroll step rerolls exactly when gold > 0 (at gold 0 it ends the run
\* with nothing changed); afterwards every unit offer slot holds a unit at its
\* species' default stats and every food slot holds a food, gold is exactly 1
\* less and the team is unchanged.
C20_Reroll ==
    [][Took(3) =>
         IF shop.gold > 0
         THEN /\ spc' = "step" /\ last' = "reroll"
              /\ shop'.gold = shop.gold - 1
              /\ shop'.team = shop.team
              /\ \A i \in ShopSlots :
                    IsSome(shop'.shop_friends[i]) /\ Fresh(Unwrap(shop'.shop_friends[i]))
              /\ \A i \in FoodSlots : shop'.shop_foods[i] \in {Some("Apple"), Some("Honey")}
         ELSE FailedClosed]_vars

C20_Witness ==
    /\ last = "reroll"
    /\ shop.gold = 7
    /\ is_empty(shop.team)
    /\ \A i \in ShopSlots : shop.shop_friends[i] = Some(Friend_new("Duck"))

\* C21: a merge step on a team with a same-species pair takes the unit of one
\* slot i and combines it into a same-species unit at another slot j by the
\* combine rule; every other unit, the gold and the offers stay as they were
\* (no on-buy, no on-summon), and the team has exactly one unit less.
C21_Merge ==
    [][(Took(4) /\ HasPair(shop.team)) =>
         /\ spc' = "step" /\ last' = "merge"
         /\ shop'.gold = shop.gold
         /\ shop'.shop_friends = shop.shop_friends
         /\ shop'.shop_foods = shop.shop_foods
         /\ count(shop'.team) = count(shop.team) - 1
         /\ \E i, j \in Occupied(shop.team) :
               /\ i # j
               /\ Unwrap(shop.team[i]).species = Unwrap(shop.team[j]).species
               /\ shop'.team[i] = None
               /\ shop'.team[j] = Some(Combined(Unwrap(shop.team[j]), Unwrap(shop.team[i])))
               /\ \A m \in Slots \ {i, j} : shop'.team[m] = shop.team[m]]_vars

C21_Witness ==
    /\ last = "merge"
    /\ shop.gold = 4
    /\ Cardinality(Offers(shop)) = 1
    /\ count(shop.team) = 1
    /\ \E j \in Slots :
          shop.team[j] = Some([species |-> "Otter", modifier |-> "None",
                               health |-> 3, attack |-> 4, exp |-> 1])

\* ------------------------------------------------------------------ claims: the team's layout

\* the units of t from slot i on, front to back
RECURSIVE InOrder(_, _)
InOrder(t, i) ==
    IF i >= TEAM_SIZE THEN <<>>
    ELSE (IF IsSome(t[i]) THEN <<Unwrap(t[i])>> ELSE <<>>) \o InOrder(t, i + 1)

\* C22: make_space_at(i) keeps the units and their order; it fails exactly on
\* a full team, which it leaves as it is; on success slot i is empty. An
\* occupied slot i is freed through the nearest empty slot behind i, the units
\* from i up to it moving one slot back; only with no empty slot behind, the
\* units up to i move toward the front into an empty slot in front of i.
C22_MakeSpaceAt ==
    [][(bpc.op = "team" /\ bpc'.op \in {"spaced", "full"}) =>
         LET t == battle[1]
             t1 == battle'[1]
             i == bpc.i
             behind == {j \in Slots : j > i /\ IsNone(t[j])}
             front == {j \in Slots : j < i /\ IsNone(t[j])}
         IN /\ InOrder(t1, 0) = InOrder(t, 0)
            /\ bpc'.op = "full" <=> Occupied(t) = Slots
            /\ bpc'.op = "full" => t1 = t
            /\ bpc'.op = "spaced" => IsNone(t1[i])
            /\ IsNone(t[i]) => t1 = t
            /\ (IsSome(t[i]) /\ behind # {}) =>
                  \E j \in behind :
                     /\ \A b \in behind : j <= b
                     /\ t1 = [k \in Slots |->
                                 IF k = i THEN None
                                 ELSE IF i < k /\ k <= j THEN t[k - 1]
                                 ELSE t[k]]
            /\ (IsSome(t[i]) /\ behind = {} /\ front # {}) =>
                  /\ \A k \in Slots : k > i => t1[k] = t[k]
                  /\ \A k \in Occupied(t) : k <= i => Some(Unwrap(t[k])) \in {t1[k], t1[Max(k - 1, 0)]}
                  /\ Cardinality({j \in Slots : j < i /\ IsNone(t1[j])}) = Cardinality(front) - 1]_vars

C22_Witness ==
    /\ bpc = At("spaced", 1, 3, FALSE)
    /\ battle[1] = [Layout({0, 1, 2, 4}) EXCEPT ![0] = Some(Tagged(1)), ![1] = None, ![2] = Some(Tagged(3)), ![3] = None]

\* C23: compact leaves no empty slot in front of an occupied one and keeps
\* the units and their order; a team without such a gap is left as it is, so
\* compacting twice is compacting once.
C23_Compact ==
    [][(bpc.op = "team" /\ bpc'.op = "compacted") =>
         LET t == battle[1]
             t1 == battle'[1]
         IN /\ GapFree(t1)
            /\ InOrder(t1, 0) = InOrder(t, 0)
            /\ GapFree(t) => t1 = t
            /\ compact(t1) = t1]_vars

C23_Witness ==
    /\ bpc.op = "compacted"
    /\ battle[1] = [Team_new EXCEPT ![0] = Some(Tagged(1)), ![1] = Some(Tagged(2)),
                                    ![2] = Some(Tagged(4))]

\* ------------------------------------------------------------------ claims: pick_some

\* the indices a call of pick_some yields for the rolled values ds
Picked(ds) == pick_some(bpc.i, battle[1], ds)

Present == {k \in Slots : IsSome(battle[1][k])}

Injective(q) == \A a, b \in 1..Len(q) : a # b => q[a] # q[b]

\* C24: pick_some(dice, n, vs) yields min(n, present entries) indices, all
\* distinct and all at present entries, one roll per index, the k-th roll
\* (k from 0) in the range 0..(count - k); pick_one (n = 1) yields nothing
\* exactly when no entry is present.
C24_PickSome ==
    bpc.op = "pick" =>
       /\ dpc # "abort"
       /\ Len(Picked(drawn)) = Len(drawn)
       /\ Injective(Picked(drawn))
       /\ \A k \in 1..Len(drawn) : Picked(drawn)[k] \in Present
       /\ index <= Len(data)
       /\ dpc = "run" => index = Len(drawn)
       /\ \A k \in 1..index : data[k].r = Range(0, Cardinality(Present) - (k - 1))
       /\ \A r \in 1..Len(visited) :
             /\ Len(Picked(visited[r])) = Smaller(bpc.i, Cardinality(Present))
             /\ bpc.i = 1 => (Picked(visited[r]) = <<>> <=> Present = {})

C24_Witness ==
    /\ bpc = At("pick", 1, 3, FALSE)
    /\ Present = {0, 2, 3, 4}
    /\ dpc = "next"
    /\ Picked(drawn) = <<3, 0, 4>>

\* the ordered selections of n distinct present indices
Selections(n) == {q \in [1..n -> Present] : Injective(q)}

\* c * (c - 1) * ... * (c - n + 1)
RECURSIVE Falling(_, _)
Falling(c, n) == IF n = 0 THEN 1 ELSE c * Falling(c - 1, n - 1)

\* C25: when the exhaustive dice reports the end of the enumeration of one
\* pick_some(n) call over c present candidates, the finished calls are
\* c * (c - 1) * ... * (c - n + 1) in number (n cut to c), their results are
\* pairwise different and they are all the ordered selections of n distinct
\* present indices.
C25_PickEnumeration ==
    (bpc.op = "pick" /\ dpc = "done") =>
       LET c == Cardinality(Present)
           n == Smaller(bpc.i, c)
           results == {Picked(visited[r]) : r \in 1..Len(visited)}
       IN /\ Len(visited) = Falling(c, n)
          /\ Cardinality(results) = Len(visited)
          /\ results = Selections(n)

C25_Witness ==
    /\ bpc = At("pick", 1, 3, FALSE)
    /\ dpc = "done"
    /\ Cardinality(Present) = TEAM_SIZE
    /\ Len(visited) = 60
    /\ Picked(visited[60]) = <<4, 3, 2>>

\* ------------------------------------------------------------------ claims: battles without dice

\* Battle::is_deterministic: no unit of either team is an Ant or a Mosquito
IsDeterministic(b) ==
    \A t \in {1, 2} : \A i \in Occupied(b[t]) :
        Unwrap(b[t][i]).species \notin {"Ant", "Mosquito"}

\* the step of run at position pc of battle b requests no roll
NoRoll(b, pc) ==
    CASE pc.op = "start" -> OnBattleStartDraws(b, pc.i, pc.t) = {<<>>}
      [] pc.op = "rd" -> RemoveDeadDraws(b[pc.t], pc.i) = {<<>>}
      [] OTHER -> TRUE

\* C26: in a battle without Ant and Mosquito no step of Battle::run requests
\* a roll and the battle stays without Ant and Mosquito, so the step's result
\* is the one computed without any drawn value and the run, and its Winner,
\* do not depend on the dice.
C26_NoDiceNoDraw ==
    [][(IsDeterministic(battle) /\ bpc.op \in {"start", "rd", "loop"}) =>
         /\ NoRoll(battle, bpc)
         /\ IsDeterministic(battle')
         /\ bpc'.op # "abort"
         /\ bpc.op = "start" => battle' = battle
         /\ bpc.op = "rd" =>
               LET t1 == RemoveDeadSlot(battle[bpc.t], bpc.i, <<>>)
               IN battle'[bpc.t] \in {t1, compact(t1)}
         /\ bpc.op = "loop" =>
               \/ bpc'.op = "done" /\ battle' = battle
               \/ bpc'.op = "rd" /\ battle' = Clash(battle)]_vars

C26_Witness ==
    /\ bpc.op = "done"
    /\ winner = "TeamA"
    /\ clashes = 2
    /\ Len(fired) = 2
    /\ IsDeterministic(battle)
    /\ Occupied(battle[1]) = {0}
    /\ Unwrap(battle[1][0]).species = "GhostCricket"

\* a unit with health 2 and attack 1 that holds nothing
Plain21(o) ==
    /\ IsSome(o)
    /\ Unwrap(o).health = 2
    /\ Unwrap(o).attack = 1
    /\ Unwrap(o).modifier = "None"

\* each team holds one such unit, in slot 0, and the battle is about to start
Duel21 ==
    /\ bpc = At("start", 1, 0, FALSE)
    /\ \A t \in {1, 2} : Occupied(battle[t]) = {0} /\ Plain21(battle[t][0])

\* the front units right after clash number k
AfterClash(k) == bpc = At("rd", 1, 0, FALSE) /\ clashes = k

FrontHealths == <<Unwrap(battle[1][0]).health, Unwrap(battle[2][0]).health>>

\* C27: a battle of one unit with health 2 and attack 1 (and nothing else)
\* on each side has exactly 2 clashes and returns Tied: after the first
\* clash both units have health 1, after the second both have health 0.
C27_TwoClashTie ==
    Duel21 =>
       /\ [](/\ clashes <= 2
             /\ bpc.op # "abort"
             /\ AfterClash(1) => FrontHealths = <<1, 1>>
             /\ AfterClash(2) => FrontHealths = <<0, 0>>
             /\ bpc.op = "done" => (winner = "Tied" /\ clashes = 2))
       /\ <>(bpc.op = "done")

C27_Witness ==
    /\ bpc.op = "done"
    /\ winner = "Tied"
    /\ clashes = 2
    /\ fired = <<<<1, 0>>, <<2, 0>>>>
    /\ is_empty(battle[1]) /\ is_empty(battle[2])

\* ------------------------------------------------------------------ claims: on-summon

\* the number of Horses of t in the slots js
HorsesIn(t, js) ==
    Cardinality({k \in js : IsSome(t[k]) /\ Unwrap(t[k]).species = "Horse"})

\* remove_dead has just replaced the dead honey unit of slot i by a Bee
BeeSummoned ==
    /\ bpc.op = "rd" /\ bpc'.op # "abort"
    /\ bpc.i < TEAM_SIZE - 1
    /\ IsDead(battle[bpc.t][bpc.i])
    /\ Unwrap(battle[bpc.t][bpc.i]).modifier = "Honey"
    /\ IsSome(battle'[bpc.t][bpc.i])
    /\ Unwrap(battle'[bpc.t][bpc.i]).species = "Bee"

\* C28 as stated: the summoned unit gets +1/+1 from the Horses in the two
\* slots next to it and nothing from a Horse further away.
C28_Original ==
    [][BeeSummoned =>
         LET i == bpc.i
             t1 == battle'[bpc.t]
             n == HorsesIn(t1, {i - 1, i + 1} \cap Slots)
         IN Unwrap(t1[i]).attack = 1 + n /\ Unwrap(t1[i]).health = 1 + n]_vars

\* C28, amended: the summoned unit gets +1 attack and +1 health from every
\* Horse on its team, in whatever slot the Horse is; the units of the other
\* species give it nothing.
C28_HorseAnySlot ==
    [][BeeSummoned =>
         LET i == bpc.i
             t1 == battle'[bpc.t]
             n == HorsesIn(t1, Slots \ {i})
         IN Unwrap(t1[i]).attack = 1 + n /\ Unwrap(t1[i]).health = 1 + n]_vars

C28_Witness ==
    /\ bpc = At("rd", 2, 1, TRUE)
    /\ count(battle[2]) = 3
    /\ battle[2][0] = Some([species |-> "Bee", modifier |-> "None", health |-> 2,
                            attack |-> 2, exp |-> 0])
    /\ Unwrap(battle[2][1]).species = "Fish"
    /\ Unwrap(battle[2][2]).species = "Horse"

\* ------------------------------------------------------------------ claims: is_dumb

\* every unit of t has the stats its species starts with
AllStock(t) ==
    \A i \in Occupied(t) :
        <<Unwrap(t[i]).health, Unwrap(t[i]).attack>> = default_power(Unwrap(t[i]).species)

\* the slots of t whose unit holds a modifier
Holders(t) == {i \in Occupied(t) : Unwrap(t[i]).modifier # "None"}

\* C29 as stated: three units at default stats without a modifier are dumb,
\* three units at default stats of which one has a modifier are not.
C29_Original ==
    (bpc.op \in {"dumb", "keen"} /\ count(battle[1]) = 3 /\ AllStock(battle[1])) =>
       /\ Holders(battle[1]) = {} => bpc.op = "dumb"
       /\ Cardinality(Holders(battle[1])) = 1 => bpc.op = "keen"

\* C29, amended: is_dumb holds exactly for the teams of fewer than 3 units
\* that all have default stats and no modifier; a team of 3 or more units is
\* not dumb, with or without modifiers.
C29_DumbBelowThree ==
    bpc.op \in {"dumb", "keen"} =>
       (bpc.op = "dumb" <=>
          (count(battle[1]) < 3 /\ AllStock(battle[1]) /\ Holders(battle[1]) = {}))

C29_Witness ==
    /\ bpc.op = "keen"
    /\ count(battle[1]) = 3
    /\ AllStock(battle[1])
    /\ Holders(battle[1]) = {}

\* ------------------------------------------------------------------ claims: purchasable species

\* Species::can_purchase
can_purchase(sp) == sp \in Catalog

\* no offer and no unit of the shop's team is of a species that cannot be bought
ShopClean(s) ==
    /\ \A i \in Offers(s) : can_purchase(OfferedSpecies(s, i))
    /\ \A j \in Occupied(s.team) : can_purchase(Unwrap(s.team[j]).species)

\* the number of units of battle b that cannot be bought
SummonedCount(b) ==
    Cardinality({<<t, i>> \in {1, 2} \X Slots :
        IsSome(b[t][i]) /\ ~can_purchase(Unwrap(b[t][i]).species)})

\* C30: in the shop no offer and no team unit is a GhostCricket or a Bee:
\* every value Species::sample can draw gives a purchasable species, and the
\* number of non-purchasable units grows only in a battle, in the step of
\* remove_dead that handles a dead unit.
C30_OnlyPurchasableInShop ==
    [][/\ ShopClean(shop) /\ ShopClean(shop')
       /\ \A v \in 0..8 : can_purchase(Species_sample(v))
       /\ SummonedCount(battle') > SummonedCount(battle) =>
             (bpc.op = "rd" /\ IsDead(battle[bpc.t][bpc.i]) /\ shop = EmptyShop)]_vars

C30_Witness ==
    /\ bpc.op = "loop"
    /\ shop = EmptyShop
    /\ count(battle[1]) = 2
    /\ Unwrap(battle[1][0]).species = "Bee"
    /\ Unwrap(battle[1][1]).species = "GhostCricket"

\* ------------------------------------------------------------------ claims: the Mosquito

\* the unit on_battle_start is about to be called for
Starter == battle[bpc.t][bpc.i]

\* team u is team t with 1 health taken, down to 0 at most, from the slots of H
ShotAt(t, u, H) ==
    \A j \in Slots :
        IF j \in H
        THEN u[j] = Some([Unwrap(t[j]) EXCEPT !.health = saturating_sub(@, 1)])
        ELSE u[j] = t[j]

\* C31: at battle start a Mosquito of level L takes exactly 1 health, never going
\* below 0, from each of min(L, number of occupied enemy slots) distinct occupied
\* slots of the opposing team and changes nothing on its own team.
C31_MosquitoShots ==
    [][(bpc.op = "start" /\ bpc'.op # "abort"
        /\ IsSome(Starter) /\ Unwrap(Starter).species = "Mosquito")
       => LET foe == battle[3 - bpc.t]
              n == Min(level(Unwrap(Starter)), Cardinality(Occupied(foe)))
          IN /\ battle'[bpc.t] = battle[bpc.t]
             /\ \E H \in SUBSET Occupied(foe) :
                   /\ Cardinality(H) = n
                   /\ ShotAt(foe, battle'[3 - bpc.t], H)
             /\ \A j \in Slots : IsSome(battle'[3 - bpc.t][j])
                   => Unwrap(battle'[3 - bpc.t][j]).health >= 0]_vars

\* a Mosquito of level 3 has shot three Horses once each
C31_Witness ==
    /\ bpc = At("start", 2, 1, FALSE)
    /\ level(Unwrap(battle[2][0])) = 3
    /\ battle[1] = TeamOf([k \in 1..3 |-> [Friend_new("Horse") EXCEPT !.health = 1]])

\* ------------------------------------------------------------------ claims: the Cricket

\* the slot remove_dead is looking at
Looked == battle[bpc.t][bpc.i]

\* the Horses of t in the occupied slots other than i, dead or alive
OtherHorses(t, i) == {j \in Slots : j # i /\ IsSome(t[j]) /\ Unwrap(t[j]).species = "Horse"}

\* C32: when a Cricket without modifier dies in slot i, a GhostCricket with attack =
\* health = the cricket's level, no modifier and exp 0 stands in slot i when the
\* on-summon reactions fire, and every other occupied slot reacts to slot i once:
\* the ghost ends with +1/+1 for each Horse on the team and no other slot changes.
C32_GhostCricket ==
    [][(bpc.op = "rd" /\ bpc'.op # "abort" /\ IsDead(Looked)
        /\ Unwrap(Looked).species = "Cricket" /\ Unwrap(Looked).modifier = "None")
       => LET t == battle[bpc.t]
              i == bpc.i
              f == Unwrap(Looked)
              h == Cardinality(OtherHorses(t, i))
              ghost == [species |-> "GhostCricket", attack |-> level(f) + h,
                        health |-> level(f) + h, modifier |-> "None", exp |-> 0]
              e == [t EXCEPT ![i] = Some(ghost)]
          IN battle'[bpc.t] = IF i = TEAM_SIZE - 1 THEN compact(e) ELSE e]_vars

\* a Cricket of level 3 behind a Horse has left a ghost of 4/4 in its slot
C32_Witness ==
    /\ bpc = At("rd", 2, 2, TRUE)
    /\ IsSome(battle[2][0]) /\ Unwrap(battle[2][0]).species = "Horse"
    /\ battle[2][1] = Some([species |-> "GhostCricket", attack |-> 4, health |-> 4,
                            modifier |-> "None", exp |-> 0])

\* ------------------------------------------------------------------ claims: the Otter

\* the slots a buy puts its unit into: a slot that was empty, or the slot of the
\* unit that gained the exp of the combine
Landed(t, t1) ==
    {j \in Slots : \/ IsNone(t[j]) /\ IsSome(t1[j])
                   \/ IsSome(t[j]) /\ IsSome(t1[j])
                      /\ Unwrap(t1[j]).exp = Unwrap(t[j]).exp + 1}

\* C33: buying an Otter gives +1 health and +1 attack to exactly one unit that was
\* on the team before and is not the unit the Otter lands on or is combined into;
\* the Otter itself gets nothing from its own ability (only the Horses' +1/+1 on
\* a summon, or the combine), and with no other unit on the team nothing else
\* changes.
C33_OtterOnBuy ==
    [][(Took(0) /\ last' = "buy") =>
         \A i \in Offers(shop) :
            (shop'.shop_friends[i] = None /\ OfferedSpecies(shop, i) = "Otter") =>
               LET f == Unwrap(shop.shop_friends[i])
                   t == shop.team
                   t1 == shop'.team
                   horses == Cardinality(Holding(t, "Horse"))
               IN \E j \in Landed(t, t1) :
                     LET others == Occupied(t) \ {j}
                         raised == {k \in others : t1[k] # t[k]}
                     IN /\ Landed(t, t1) = {j}
                        /\ Cardinality(raised) = (IF others = {} THEN 0 ELSE 1)
                        /\ \A k \in raised : t1[k] = Some(Raised(Unwrap(t[k]), 1, 1))
                        /\ t1[j] = IF IsNone(t[j]) THEN Some(Raised(f, horses, horses))
                                   ELSE Some(Combined(Unwrap(t[j]), f))
                        /\ Occupied(t1) = Occupied(t) \cup {j}]_vars

\* an Otter was bought onto an Otter; the Horse got +1/+1 from each of the two
C33_Witness ==
    /\ last = "buy"
    /\ count(shop.team) = 2
    /\ \E j, k \in Slots :
          /\ IsSome(shop.team[j]) /\ Unwrap(shop.team[j]).species = "Otter"
          /\ Unwrap(shop.team[j]).exp = 1
          /\ shop.team[k] = Some(Raised(Friend_new("Horse"), 2, 2))

\* ------------------------------------------------------------------ claims: draws stay in range

\* `rng.gen_range(0..num)` of the merge arm, drawn by the exhaustive Rng at a
\* position it has not visited before
MergeDraw(s) ==
    LET range == Range(0, CountTrue(HasTargets(s.team)))
    IN [range |-> range,
        out |-> Rng_gen_range([NewDice EXCEPT !.initialized = TRUE], range).out]

\* C34 as stated: in exhaustive mode every draw returns a value v with
\* range.start <= v < range.end, the first draw of the merge step included when
\* no slot has a same-species partner.
C34_Original ==
    [][(Took(4) /\ menu.rng = "Rng")
       => RangeContains(MergeDraw(shop).range, MergeDraw(shop).out)]_vars

\* ------------------------------------------------------------------ claims: the order of the runs

\* p comes before q in lexicographic order, at a position both have
LexLess(p, q) ==
    \E k \in 1..Min(Len(p), Len(q)) :
        /\ \A i \in 1..(k - 1) : p[i] = q[i]
        /\ p[k] < q[k]

\* the values of the history
Values(h) == [i \in 1..Len(h) |-> h[i].v]

\* a deterministic simulation enumerated from a new dice; an empty range, if it
\* requests one, is its last draw (as in the merge arm of Shop::step)
Enumerated == origin = "new" /\ Deterministic(sim) /\ (sim.zero => sim.depth <= 1)

\* C35: across the exhaustive enumeration of a deterministic simulation every
\* run draws a sequence that is strictly greater, in lexicographic order, than
\* the sequence of the run before: the history after a run holds the values it
\* drew, next() keeps every entry before the incremented one, increments exactly
\* one entry by 1 and drops every entry after it, and the following run draws
\* the values of that prefix again without aborting.
C35_RunsAscend ==
    /\ [](Enumerated =>
            /\ dpc # "abort"
            /\ \A k \in 1..(Len(visited) - 1) : LexLess(visited[k], visited[k + 1])
            /\ (dpc = "next" /\ visited # <<>>) => Values(data) = Last(visited)
            /\ dpc = "run" => \A i \in 1..Min(index, Len(drawn)) : drawn[i] = data[i].v)
    /\ [][(Enumerated /\ dpc = "next" /\ initialized /\ dpc' = "run") =>
            \E k \in 1..Len(data) :
               /\ Len(data') = k
               /\ \A i \in 1..(k - 1) : data'[i] = data[i]
               /\ data'[k] = Entry(data[k].v + 1, data[k].r)
               /\ index' = 0]_vars

\* an enumeration is over whose runs differ in length and in which a run
\* followed one that it shares a first value with and one that it does not
C35_Witness ==
    /\ Enumerated /\ dpc = "done"
    /\ \E i, j \in 1..(Len(visited) - 1) :
          /\ Len(visited[i]) >= 2 /\ Len(visited[i + 1]) >= 2
          /\ visited[i][1] = visited[i + 1][1]
          /\ visited[j][1] < visited[j + 1][1]
          /\ Len(visited[j]) # Len(visited[j + 1])

\* ------------------------------------------------------------------ claims: the shop run ends

\* twice the gold plus five per unit: a unit costs 3 gold and sells for 2 at most
Potential(s) == 2 * s.gold + 5 * count(s.team)

\* C36: every shop run that starts from Shop::new and repeats step until it
\* returns true ends after finitely many steps, for every sequence of draws:
\* every step that returns false lowers twice the gold plus five per unit, which
\* starts at 20 and is never negative, so selling (the Pig's bonus included)
\* never pays for an endless cycle.
C36_ShopRunEnds ==
    /\ <>(spc \in {"done", "abort"})
    /\ [][spc' = "step" => Potential(shop') < Potential(shop)]_vars
    /\ [](spc = "step" => (Potential(shop) >= 0 /\ steps + Potential(shop) <= MaxRunSteps))

\* a run has ended after a Pig was sold for 2 gold and the gold was spent again
C36_Witness ==
    /\ spc = "done"
    /\ steps >= 8
    /\ shop.gold = 0
    /\ menu.friends = {8}

\* ------------------------------------------------------------------ claims: the front slots

\* C37: in a battle started from two gap-free teams both teams are gap-free
\* whenever run is at the head of its loop, so whenever it clashes both teams have
\* a unit in slot 0 and the clash never aborts on an empty front slot, also after
\* pre-battle kills, ghost cricket and bee spawns and the shifts of make_space_at.
C37_FrontsOccupied ==
    /\ [](bpc.op = "loop" => (GapFree(battle[1]) /\ GapFree(battle[2])))
    /\ [][bpc.op = "loop" => bpc'.op # "abort"]_vars
    /\ [][clashes' = clashes + 1 => (IsSome(battle[1][0]) /\ IsSome(battle[2][0]))]_vars

\* the front Cricket with honey was shot before the battle; its bee took the
\* front slot, pushing the ghost cricket back, and has clashed
C37_Witness ==
    /\ clashes = 1
    /\ bpc = At("rd", 1, 0, FALSE)
    /\ IsSome(battle[1][0]) /\ Unwrap(battle[1][0]).species = "Bee"
    /\ IsSome(battle[1][1]) /\ Unwrap(battle[1][1]).species = "GhostCricket"
    /\ IsSome(battle[1][2])

\* ------------------------------------------------------------------ claims: no dead unit is left

\* no unit of t has health 0
AllAlive(t) == \A k \in Slots : ~IsDead(t[k])

\* C38: when remove_dead returns, no occupied slot of the team holds a unit with
\* health 0: the shifts of make_space_at move no dead unit past the loop and every
\* spawned unit has health >= 1. On a team without a unit of health 0 remove_dead
\* changes nothing and makes no draw.
C38_NoDeadLeft ==
    /\ [][rdLog' # rdLog => AllAlive(battle'[bpc.t])]_vars
    /\ [][(bpc.op = "rd" /\ ~bpc.changed /\ AllAlive(battle[bpc.t])) =>
            /\ battle' = battle
            /\ bpc'.op # "abort"
            /\ ~bpc'.changed
            /\ RemoveDeadDraws(battle[bpc.t], bpc.i) = {<<>>}]_vars

\* a dead Horse in front and a dead Cricket with honey in the last slot of a full
\* team: the ghost cricket was shifted forward and the bee stands behind it
C38_Witness ==
    /\ bpc.op = "loop"
    /\ rdLog = <<1, 2>>
    /\ battle[2] = TeamOf(<<Friend_new("Fish"), Friend_new("Fish"), Friend_new("Fish"),
                            GhostCricket(Friend_new("Cricket")), Bee>>)

\* ------------------------------------------------------------------ claims: levels in the shop

\* the units of the shop s: those of the team and those on offer
ShopUnits(s) ==
    {Unwrap(s.team[i]) : i \in Occupied(s.team)}
        \cup {Unwrap(s.shop_friends[i]) : i \in Offers(s)}

\* C39: in every state of a shop run started from Shop::new with 10 gold, every
\* unit's exp is one Friend::level accepts (exp <= 6), so computing a level never
\* aborts, and every unit has level 1.
C39_LevelOne ==
    \A f \in ShopUnits(shop) : LevelOk(f) /\ level(f) = 1

\* three units of one species were combined into one: exp 2, no gold for more
C39_Witness ==
    /\ spc = "done"
    /\ shop.gold = 0
    /\ \E i \in Slots : IsSome(shop.team[i]) /\ Unwrap(shop.team[i]).exp = 2

\* ------------------------------------------------------------------ claims: replay from a key

\* p is a prefix of q
IsPrefix(p, q) == Len(p) <= Len(q) /\ \A i \in 1..Len(p) : p[i] = q[i]

\* C40: a dice rebuilt with from_key(key(d)) from the history of a finished run
\* draws, for the same deterministic simulation, exactly the values of that run
\* and no draw aborts; an entry loaded without a range adopts the range of the
\* first draw at its position, and that draw aborts when the loaded value is
\* outside the range.
C40_KeyReplays ==
    /\ []((origin = "rekey" /\ Deterministic(sim) /\ NoEmptyRange(sim)) =>
            /\ dpc # "abort"
            /\ dpc = "run" => IsPrefix(drawn, Last(visited))
            /\ dpc = "next" => (/\ Len(visited) >= 2
                                /\ Last(visited) = visited[Len(visited) - 1]))
    /\ [][(origin \in {"key", "rekey"} /\ Replaying /\ RangeIsEmpty(data[index + 1].r)) =>
            LET e == data[index + 1]
            IN IF RangeContains(Requested, e.v)
               THEN /\ dpc' = "run"
                    /\ drawn' = Append(drawn, e.v)
                    /\ data' = [data EXCEPT ![index + 1] = Entry(e.v, Requested)]
               ELSE dpc' = "abort" /\ drawn' = drawn]_vars

\* a run of three draws that was not the first of its enumeration has been
\* replayed from its key
C40_Witness ==
    /\ origin = "rekey" /\ Deterministic(sim) /\ NoEmptyRange(sim)
    /\ dpc = "next"
    /\ Len(visited) >= 3
    /\ Len(Last(visited)) = 3
    /\ \E i \in 1..3 : Last(visited)[i] >= 2
    /\ Last(visited) = visited[Len(visited) - 1]

====
